---- MODULE Spec2Model ----
(***************************************************************************)
(* TrendRadar (src/main.py): the snapshot text codec, the same-day merge,  *)
(* the new-title detector and the keyword statistics, as state machines.   *)
(*                                                                         *)
(* A Python str is a sequence of one-character strings.  A Python dict is  *)
(* a sequence of records [k |-> key, v |-> value] in insertion order, keys *)
(* unique.                                                                 *)
(***************************************************************************)
EXTENDS Integers, Sequences, FiniteSets, TLC

(***************************************************************************)
(* Python str operations used by the program                               *)
(***************************************************************************)
Digits == <<"0", "1", "2", "3", "4", "5", "6", "7", "8", "9">>

\* "^" stands for the character "\u00b2" (superscript two), for which
\* str.isdigit() is True and int() raises ValueError
SuperscriptTwo == "^"

\* c.isdigit()
IsDigitChar(c) == (\E i \in 1..Len(Digits) : Digits[i] = c) \/ c = SuperscriptTwo

\* int(s) returns for this string of digit characters
IntAccepts(s) == \A i \in 1..Len(s) : \E k \in 1..Len(Digits) : Digits[k] = s[i]

DigitVal(c) == (CHOOSE i \in 1..Len(Digits) : Digits[i] = c) - 1

\* the whitespace characters of the alphabet (str.strip() with no argument)
IsSpace(c) == c \in {" ", "\n"}

StartsAt(s, sub, i) ==
    /\ i >= 1
    /\ i + Len(sub) - 1 <= Len(s)
    /\ \A j \in 1..Len(sub) : s[i + j - 1] = sub[j]

\* sub in s
Contains(s, sub) == \E i \in 1..(Len(s) + 1) : StartsAt(s, sub, i)

\* s.find(sub) + 1: the position of the first occurrence, 0 when there is none
Find(s, sub) ==
    IF Contains(s, sub)
    THEN CHOOSE i \in 1..(Len(s) + 1) :
             StartsAt(s, sub, i) /\ \A k \in 1..(i - 1) : ~StartsAt(s, sub, k)
    ELSE 0

\* s.rfind(sub) + 1
RFind(s, sub) ==
    IF Contains(s, sub)
    THEN CHOOSE i \in 1..(Len(s) + 1) :
             StartsAt(s, sub, i) /\ \A k \in (i + 1)..(Len(s) + 1) : ~StartsAt(s, sub, k)
    ELSE 0

RECURSIVE Split(_, _)
\* s.split(sep), sep non-empty
Split(s, sep) ==
    LET i == Find(s, sep)
    IN  IF i = 0
        THEN <<s>>
        ELSE <<SubSeq(s, 1, i - 1)>> \o Split(SubSeq(s, i + Len(sep), Len(s)), sep)

\* s.split(sep, 1)
Split1(s, sep) ==
    LET i == Find(s, sep)
    IN  IF i = 0
        THEN <<s>>
        ELSE <<SubSeq(s, 1, i - 1), SubSeq(s, i + Len(sep), Len(s))>>

\* s.rsplit(sep, 1)
RSplit1(s, sep) ==
    LET i == RFind(s, sep)
    IN  IF i = 0
        THEN <<s>>
        ELSE <<SubSeq(s, 1, i - 1), SubSeq(s, i + Len(sep), Len(s))>>

\* s.strip()
Strip(s) ==
    IF \A i \in 1..Len(s) : IsSpace(s[i])
    THEN <<>>
    ELSE LET a == CHOOSE i \in 1..Len(s) :
                      ~IsSpace(s[i]) /\ \A k \in 1..(i - 1) : IsSpace(s[k])
             b == CHOOSE i \in 1..Len(s) :
                      ~IsSpace(s[i]) /\ \A k \in (i + 1)..Len(s) : IsSpace(s[k])
         IN  SubSeq(s, a, b)

\* s.isdigit()
IsDigit(s) == Len(s) > 0 /\ \A i \in 1..Len(s) : IsDigitChar(s[i])

\* s.endswith(suffix)
EndsWith(s, suffix) == StartsAt(s, suffix, Len(s) - Len(suffix) + 1)

RECURSIVE ParseInt(_)
\* int(s) for a string of decimal digits
ParseInt(s) ==
    IF s = <<>>
    THEN 0
    ELSE ParseInt(SubSeq(s, 1, Len(s) - 1)) * 10 + DigitVal(s[Len(s)])

RECURSIVE IntToStr(_)
\* str(n) for n >= 0, as the f-string writes it
IntToStr(n) ==
    IF n < 10
    THEN <<Digits[n + 1]>>
    ELSE IntToStr(n \div 10) \o <<Digits[(n % 10) + 1]>>

LowerChar(c) ==
    CASE c = "A" -> "a"
      [] c = "B" -> "b"
      [] c = "C" -> "c"
      [] OTHER -> c

\* s.lower()
Lower(s) == [i \in 1..Len(s) |-> LowerChar(s[i])]

\* s.replace(" ", "-")
ReplaceSpaceByDash(s) == [i \in 1..Len(s) |-> IF s[i] = " " THEN "-" ELSE s[i]]

(***************************************************************************)
(* Python dict operations (insertion-ordered)                              *)
(***************************************************************************)
DictHas(d, key) == \E i \in 1..Len(d) : d[i].k = key

DictGet(d, key) == d[CHOOSE i \in 1..Len(d) : d[i].k = key].v

\* d.get(key, default)
DictGetOr(d, key, default) == IF DictHas(d, key) THEN DictGet(d, key) ELSE default

\* d[key] = val: an existing key keeps its position
DictSet(d, key, val) ==
    IF DictHas(d, key)
    THEN [i \in 1..Len(d) |-> IF d[i].k = key THEN [k |-> key, v |-> val] ELSE d[i]]
    ELSE Append(d, [k |-> key, v |-> val])

DictKeys(d) == {d[i].k : i \in 1..Len(d)}

EmptyDict == <<>>

\* the item of a sequence of lines that a line of text ends with
LF == <<"\n">>

(***************************************************************************)
(* The literal markers of the snapshot text format                         *)
(***************************************************************************)
\* " [URL:"
URL_TAG == <<" ", "[", "U", "R", "L", ":">>

\* " [MOBILE:"
MOBILE_TAG == <<" ", "[", "M", "O", "B", "I", "L", "E", ":">>

\* ". "
RANK_SEP == <<".", " ">>

\* "==== 以下ID请求失败 ====" ; the character "#" stands for the run of seven
\* non-ASCII/ASCII characters between the two "====" groups
FAILED_MARKER == <<"=", "=", "=", "=", " ", "#", " ", "=", "=", "=", "=">>

(***************************************************************************)
(* DataFetcher.crawl_websites: the per-source snapshot built from one      *)
(* response.  A response is [ok |-> fetch_data returned a payload,         *)
(* items |-> the payload's "items"]; an item is                            *)
(* [has_title, title, url, mobileUrl].                                     *)
(***************************************************************************)
TitleData(ranks, url, mobile_url) == [ranks |-> ranks, url |-> url, mobileUrl |-> mobile_url]

RECURSIVE CrawlItems(_, _, _)
\* the loop over enumerate(data.get("items", []), 1); item["title"] raises
\* KeyError on an item without a title, which leaves the partial dict behind
CrawlItems(items, index, acc) ==
    IF index > Len(items)
    THEN [raised |-> FALSE, titles |-> acc]
    ELSE LET item == items[index]
         IN  IF ~item.has_title
             THEN [raised |-> TRUE, titles |-> acc]
             ELSE IF DictHas(acc, item.title)
                  THEN LET old == DictGet(acc, item.title)
                       IN  CrawlItems(items, index + 1,
                               DictSet(acc, item.title,
                                   [old EXCEPT !.ranks = Append(old.ranks, index)]))
                  ELSE CrawlItems(items, index + 1,
                           DictSet(acc, item.title,
                               TitleData(<<index>>, item.url, item.mobileUrl)))

RECURSIVE CrawlLoop(_, _, _, _)
CrawlLoop(ids_list, responses, i, acc) ==
    IF i > Len(ids_list)
    THEN acc
    ELSE LET id_value == ids_list[i].id
             alias == ids_list[i].alias
             response == responses[i]
             withAlias == [acc EXCEPT !.id_to_alias = DictSet(@, id_value, alias)]
         IN  IF response.ok
             THEN LET r == CrawlItems(response.items, 1, EmptyDict)
                      withResult == [withAlias EXCEPT
                                        !.results = DictSet(@, id_value, r.titles)]
                  IN  CrawlLoop(ids_list, responses, i + 1,
                          IF r.raised
                          THEN [withResult EXCEPT
                                   !.failed_ids = Append(@, id_value)]
                          ELSE withResult)
             ELSE CrawlLoop(ids_list, responses, i + 1,
                      [withAlias EXCEPT !.failed_ids = Append(@, id_value)])

crawl_websites(ids_list, responses) ==
    CrawlLoop(ids_list, responses, 1,
        [results |-> EmptyDict, id_to_alias |-> EmptyDict, failed_ids |-> <<>>])

(***************************************************************************)
(* DataProcessor.save_titles_to_file: the text it writes                   *)
(***************************************************************************)
RECURSIVE Concat(_)
Concat(seqs) == IF seqs = <<>> THEN <<>> ELSE Head(seqs) \o Concat(Tail(seqs))

\* list.sort(key=lambda x: x[0]) is stable: an entry goes after every entry
\* whose rank is not larger
InsertByRank(sorted, e) ==
    LET n == Cardinality({i \in 1..Len(sorted) : sorted[i].rank <= e.rank})
    IN  SubSeq(sorted, 1, n) \o <<e>> \o SubSeq(sorted, n + 1, Len(sorted))

RECURSIVE SortByRank(_)
SortByRank(entries) ==
    IF entries = <<>>
    THEN <<>>
    ELSE InsertByRank(SortByRank(SubSeq(entries, 1, Len(entries) - 1)),
                      entries[Len(entries)])

\* the entry of one title with its last rank
SortEntryLastRank(title, info) ==
    [rank |-> IF info.ranks # <<>> THEN info.ranks[Len(info.ranks)] ELSE 1,
     title |-> title, url |-> info.url, mobile_url |-> info.mobileUrl]

\* (rank, title, url, mobile_url) of one title: rank = ranks[0] if ranks else 1
SortEntry(title, info) ==
    [rank |-> IF info.ranks # <<>> THEN info.ranks[1] ELSE 1,
     title |-> title, url |-> info.url, mobile_url |-> info.mobileUrl]

\* f"{rank}. {title}" + " [URL:{url}]" if url + " [MOBILE:{mobile_url}]" if mobile_url
FormatTitleLine(e) ==
    IntToStr(e.rank) \o RANK_SEP \o e.title
        \o (IF e.url # <<>> THEN URL_TAG \o e.url \o <<"]">> ELSE <<>>)
        \o (IF e.mobile_url # <<>> THEN MOBILE_TAG \o e.mobile_url \o <<"]">> ELSE <<>>)
        \o LF

FormatSource(id_value, title_data, id_to_alias) ==
    LET sorted_titles ==
            SortByRank([i \in 1..Len(title_data) |->
                           SortEntry(title_data[i].k, title_data[i].v)])
    IN  DictGetOr(id_to_alias, id_value, id_value) \o LF
            \o Concat([i \in 1..Len(sorted_titles) |-> FormatTitleLine(sorted_titles[i])])
            \o LF

\* f"{display_name} (ID: {id_value})\n"
FormatFailed(id_value, id_to_alias) ==
    DictGetOr(id_to_alias, id_value, id_value)
        \o <<" ", "(", "I", "D", ":", " ">> \o id_value \o <<")">> \o LF

save_titles_to_file(results, id_to_alias, failed_ids) ==
    Concat([i \in 1..Len(results) |->
               FormatSource(results[i].k, results[i].v, id_to_alias)])
        \o (IF failed_ids # <<>>
            THEN FAILED_MARKER \o LF
                     \o Concat([i \in 1..Len(failed_ids) |->
                                   FormatFailed(failed_ids[i], id_to_alias)])
            ELSE <<>>)

(***************************************************************************)
(* DataProcessor._parse_file_titles: the decoder of one snapshot file      *)
(***************************************************************************)
\* no rank is taken off the line
ExtractRankNever(title_part) ==
    [title_part |-> title_part, ranks |-> <<1>>, raised |-> FALSE]

\* if ". " in title_part and title_part.split(". ")[0].isdigit():
\*     rank_str, title_part = title_part.split(". ", 1); rank = int(rank_str)
\* ranks = [rank] if rank is not None else [1]
\* raised: int(rank_str) raised ValueError, which ends the try block
ExtractRank(title_part) ==
    IF Contains(title_part, RANK_SEP) /\ IsDigit(Split(title_part, RANK_SEP)[1])
    THEN IF IntAccepts(Split1(title_part, RANK_SEP)[1])
         THEN [title_part |-> Split1(title_part, RANK_SEP)[2],
               ranks |-> <<ParseInt(Split1(title_part, RANK_SEP)[1])>>,
               raised |-> FALSE]
         ELSE [title_part |-> Split1(title_part, RANK_SEP)[2], ranks |-> <<>>,
               raised |-> TRUE]
    ELSE [title_part |-> title_part, ranks |-> <<1>>, raised |-> FALSE]

\* if tag in title_part: title_part, part = title_part.rsplit(tag, 1), and
\* the value is part[:-1] if part.endswith("]"), else ""
ExtractTag(title_part, tag) ==
    IF Contains(title_part, tag)
    THEN [title_part |-> RSplit1(title_part, tag)[1],
          value |-> IF EndsWith(RSplit1(title_part, tag)[2], <<"]">>)
                    THEN SubSeq(RSplit1(title_part, tag)[2], 1,
                                Len(RSplit1(title_part, tag)[2]) - 1)
                    ELSE <<>>]
    ELSE [title_part |-> title_part, value |-> <<>>]

\* the locals after the MOBILE tag is taken off
ExtractMobile(st, m) ==
    [title_part |-> m.title_part, ranks |-> st.ranks, mobile_url |-> m.value,
     raised |-> st.raised]

\* the locals after the URL tag is taken off; title = title_part.strip()
ExtractUrl(st, u) ==
    [title |-> Strip(u.title_part), ranks |-> st.ranks, url |-> u.value,
     mobileUrl |-> st.mobile_url, raised |-> st.raised]

\* the URL step on the locals left by the MOBILE step
ExtractUrlOf(st) == ExtractUrl(st, ExtractTag(st.title_part, URL_TAG))

\* the MOBILE step, then the URL step, on the locals left by the rank step
ExtractTags(st) == ExtractUrlOf(ExtractMobile(st, ExtractTag(st.title_part, MOBILE_TAG)))

\* the body of the try block for one non-blank line
ParseTitleLine(line) == ExtractTags(ExtractRank(Strip(line)))

\* a line that raised throws away the titles of the section read so far
StoreTitleOrAbort(titles, r) ==
    IF r.raised
    THEN EmptyDict
    ELSE DictSet(titles, r.title, TitleData(r.ranks, r.url, r.mobileUrl))

\* titles[title] = {"ranks": ranks, "url": url, "mobileUrl": mobile_url}; the
\* handler of a line that raised prints it and stores nothing
StoreTitle(titles, r) ==
    IF r.raised
    THEN titles
    ELSE DictSet(titles, r.title, TitleData(r.ranks, r.url, r.mobileUrl))

RECURSIVE ParseTitleLines(_, _)
\* for line in lines[1:]: if line.strip(): titles[title] = {...}
ParseTitleLines(lines, acc) ==
    IF lines = <<>>
    THEN acc
    ELSE IF Strip(Head(lines)) = <<>>
         THEN ParseTitleLines(Tail(lines), acc)
         ELSE ParseTitleLines(Tail(lines), StoreTitle(acc, ParseTitleLine(Head(lines))))

\* a section is skipped when blank, when it holds the failure marker, or when
\* it has fewer than two lines
SectionSkipped(section) ==
    \/ Strip(section) = <<>>
    \/ Contains(section, FAILED_MARKER)
    \/ Len(Split(Strip(section), LF)) < 2

SectionName(section) == Strip(Split(Strip(section), LF)[1])

SectionTitles(section) == ParseTitleLines(Tail(Split(Strip(section), LF)), EmptyDict)

RECURSIVE ParseSections(_, _)
ParseSections(sections, acc) ==
    IF sections = <<>>
    THEN acc
    ELSE LET section == Head(sections)
         IN  IF SectionSkipped(section)
             THEN ParseSections(Tail(sections), acc)
             ELSE ParseSections(Tail(sections),
                      DictSet(acc, SectionName(section), SectionTitles(section)))

parse_file_titles(content) == ParseSections(Split(content, <<"\n", "\n">>), EmptyDict)

(***************************************************************************)
(* StatisticsCalculator._matches_word_groups                               *)
(***************************************************************************)
RECURSIVE AnyWordPresent(_, _)
\* any(word.lower() in title_lower for word in words)
AnyWordPresent(title_lower, words) ==
    IF words = <<>>
    THEN FALSE
    ELSE IF Contains(title_lower, Lower(Head(words)))
         THEN TRUE
         ELSE AnyWordPresent(title_lower, Tail(words))

RECURSIVE AllWordsPresent(_, _)
\* all(word.lower() in title_lower for word in words)
AllWordsPresent(title_lower, words) ==
    IF words = <<>>
    THEN TRUE
    ELSE IF Contains(title_lower, Lower(Head(words)))
         THEN AllWordsPresent(title_lower, Tail(words))
         ELSE FALSE

\* any() where the code has all()
GroupAcceptsAnyRequired(title_lower, group) ==
    IF group.required # <<>> /\ ~AnyWordPresent(title_lower, group.required)
    THEN FALSE
    ELSE IF group.normal # <<>> /\ ~AnyWordPresent(title_lower, group.normal)
         THEN FALSE
         ELSE TRUE

\* one pass of the loop body over a group: FALSE where the code continues
GroupAccepts(title_lower, group) ==
    IF group.required # <<>> /\ ~AllWordsPresent(title_lower, group.required)
    THEN FALSE
    ELSE IF group.normal # <<>> /\ ~AnyWordPresent(title_lower, group.normal)
         THEN FALSE
         ELSE TRUE

RECURSIVE LastAcceptingGroup(_, _, _)
\* a loop without the break: the last group that accepts
LastAcceptingGroup(title_lower, word_groups, i) ==
    IF i > Len(word_groups)
    THEN 0
    ELSE LET later == LastAcceptingGroup(title_lower, word_groups, i + 1)
         IN  IF later # 0
             THEN later
             ELSE IF GroupAccepts(title_lower, word_groups[i]) THEN i ELSE 0

RECURSIVE FirstAcceptingGroup(_, _, _)
\* the index of the group at which the loop over word_groups stops, 0 when
\* it runs to the end
FirstAcceptingGroup(title_lower, word_groups, i) ==
    IF i > Len(word_groups)
    THEN 0
    ELSE IF GroupAccepts(title_lower, word_groups[i])
         THEN i
         ELSE FirstAcceptingGroup(title_lower, word_groups, i + 1)

\* the filter test left out
MatchesIgnoringFilter(title, word_groups, filter_words) ==
    FirstAcceptingGroup(Lower(title), word_groups, 1) # 0

matches_word_groups(title, word_groups, filter_words) ==
    LET title_lower == Lower(title)
    IN  IF AnyWordPresent(title_lower, filter_words)
        THEN FALSE
        ELSE FirstAcceptingGroup(title_lower, word_groups, 1) # 0

(***************************************************************************)
(* StatisticsCalculator.count_word_frequency                               *)
(***************************************************************************)
\* "not ranked"
RANK_SENTINEL == 99

RANK_THRESHOLD == 5

RECURSIVE InitWordStats(_, _)
\* for group in word_groups: word_stats[group_key] = {"count": 0, "titles": {}}
InitWordStats(word_groups, acc) ==
    IF word_groups = <<>>
    THEN acc
    ELSE InitWordStats(Tail(word_groups),
             DictSet(acc, Head(word_groups).group_key,
                 [count |-> 0, titles |-> EmptyDict]))

\* is_new = source_id in new_titles and title in new_titles[source_id]
IsNew(source_id, title, new_titles) ==
    DictHas(new_titles, source_id) /\ DictHas(DictGet(new_titles, source_id), title)

\* the entry with the snapshot's own rank list preferred to the aggregated one
AnnotatedEntryRawRanks(source_id, title, title_data, id_to_alias, title_info, new_titles) ==
    LET has_info == /\ title_info # EmptyDict
                    /\ DictHas(title_info, source_id)
                    /\ DictHas(DictGet(title_info, source_id), title)
        info == DictGet(DictGet(title_info, source_id), title)
        ranks == IF title_data.ranks # <<>> \/ ~has_info
                 THEN title_data.ranks
                 ELSE info.ranks
    IN  [title |-> title,
         source_alias |-> DictGetOr(id_to_alias, source_id, source_id),
         first_time |-> IF has_info THEN info.first_time ELSE <<>>,
         last_time |-> IF has_info THEN info.last_time ELSE <<>>,
         count |-> IF has_info THEN info.count ELSE 1,
         ranks |-> IF ranks = <<>> THEN <<RANK_SENTINEL>> ELSE ranks,
         rank_threshold |-> RANK_THRESHOLD,
         url |-> IF has_info THEN info.url ELSE title_data.url,
         mobileUrl |-> IF has_info THEN info.mobileUrl ELSE title_data.mobileUrl,
         is_new |-> IsNew(source_id, title, new_titles)]

\* the dict appended to word_stats[group_key]["titles"][source_id]
AnnotatedEntry(source_id, title, title_data, id_to_alias, title_info, new_titles) ==
    LET has_info == /\ title_info # EmptyDict
                    /\ DictHas(title_info, source_id)
                    /\ DictHas(DictGet(title_info, source_id), title)
        info == DictGet(DictGet(title_info, source_id), title)
        ranks == IF has_info /\ info.ranks # <<>> THEN info.ranks ELSE title_data.ranks
    IN  [title |-> title,
         source_alias |-> DictGetOr(id_to_alias, source_id, source_id),
         first_time |-> IF has_info THEN info.first_time ELSE <<>>,
         last_time |-> IF has_info THEN info.last_time ELSE <<>>,
         count |-> IF has_info THEN info.count ELSE 1,
         ranks |-> IF ranks = <<>> THEN <<RANK_SENTINEL>> ELSE ranks,
         rank_threshold |-> RANK_THRESHOLD,
         url |-> IF has_info THEN info.url ELSE title_data.url,
         mobileUrl |-> IF has_info THEN info.mobileUrl ELSE title_data.mobileUrl,
         is_new |-> IsNew(source_id, title, new_titles)]

\* the body of the loop over titles_data.items() for one title; the keys of
\* a dict are unique and each source is visited once, so the processed_titles
\* test at its head never skips
CountTitle(word_stats, source_id, title, title_data, word_groups, filter_words, id_to_alias, title_info, new_titles) ==
    IF ~matches_word_groups(title, word_groups, filter_words)
    THEN word_stats
    ELSE LET g == FirstAcceptingGroup(Lower(title), word_groups, 1)
         IN  IF g = 0
             THEN word_stats
             ELSE LET group_key == word_groups[g].group_key
                      old == DictGet(word_stats, group_key)
                      entry == AnnotatedEntry(source_id, title, title_data,
                                              id_to_alias, title_info, new_titles)
                  IN  DictSet(word_stats, group_key,
                          [count |-> old.count + 1,
                           titles |-> DictSet(old.titles, source_id,
                                          Append(DictGetOr(old.titles, source_id, <<>>),
                                                 entry))])

RECURSIVE CountTitles(_, _, _, _, _, _, _, _, _)
CountTitles(word_stats, source_id, titles_data, j, word_groups, filter_words, id_to_alias, title_info, new_titles) ==
    IF j > Len(titles_data)
    THEN word_stats
    ELSE CountTitles(
             CountTitle(word_stats, source_id, titles_data[j].k, titles_data[j].v,
                        word_groups, filter_words, id_to_alias, title_info, new_titles),
             source_id, titles_data, j + 1,
             word_groups, filter_words, id_to_alias, title_info, new_titles)

RECURSIVE CountSources(_, _, _, _, _, _, _, _)
\* the loop over results.items(): total_titles += len(titles_data), then the titles
CountSources(acc, results, i, word_groups, filter_words, id_to_alias, title_info, new_titles) ==
    IF i > Len(results)
    THEN acc
    ELSE CountSources(
             [word_stats |-> CountTitles(acc.word_stats, results[i].k, results[i].v, 1,
                                 word_groups, filter_words, id_to_alias, title_info,
                                 new_titles),
              total_titles |-> acc.total_titles + Len(results[i].v)],
             results, i + 1, word_groups, filter_words, id_to_alias, title_info, new_titles)

\* truncation where the code rounds
RoundDown(num, den) == num \div den

\* round(num / den, 0) for exact rationals: ties go to the even neighbour
RoundHalfEven(num, den) ==
    LET q == num \div den
        r == num % den
    IN  IF 2 * r > den \/ (2 * r = den /\ q % 2 = 1) THEN q + 1 ELSE q

\* round(count / total_titles * 100, 2) if total_titles > 0 else 0, in hundredths
\* of a percent (25.0 is 2500)
Percentage(count, total_titles) ==
    IF total_titles > 0 THEN RoundHalfEven(count * 10000, total_titles) ELSE 0

\* all_titles taken from the first source of the group only
AllTitlesFirstSource(titles) == IF titles = <<>> THEN <<>> ELSE titles[1].v

\* all_titles: the per-source lists of one group, concatenated in source order
AllTitles(titles) == Concat([i \in 1..Len(titles) |-> titles[i].v])

\* a sort that puts an entry before the entries of equal count
InsertByCountDescUnstable(sorted, e) ==
    LET n == Cardinality({i \in 1..Len(sorted) : sorted[i].count > e.count})
    IN  SubSeq(sorted, 1, n) \o <<e>> \o SubSeq(sorted, n + 1, Len(sorted))

\* stats.sort(key=count, reverse=True) is stable: an entry goes after every
\* entry whose count is not smaller
InsertByCountDesc(sorted, e) ==
    LET n == Cardinality({i \in 1..Len(sorted) : sorted[i].count >= e.count})
    IN  SubSeq(sorted, 1, n) \o <<e>> \o SubSeq(sorted, n + 1, Len(sorted))

RECURSIVE SortByCountDesc(_)
SortByCountDesc(entries) ==
    IF entries = <<>>
    THEN <<>>
    ELSE InsertByCountDesc(SortByCountDesc(SubSeq(entries, 1, Len(entries) - 1)),
                           entries[Len(entries)])

\* the list built from word_stats.items() before the sort
StatsList(word_stats, total_titles) ==
    [i \in 1..Len(word_stats) |->
        [word |-> word_stats[i].k,
         count |-> word_stats[i].v.count,
         titles |-> AllTitles(word_stats[i].v.titles),
         percentage |-> Percentage(word_stats[i].v.count, total_titles)]]

count_word_frequency(results, word_groups, filter_words, id_to_alias, title_info, new_titles) ==
    LET r == CountSources([word_stats |-> InitWordStats(word_groups, EmptyDict),
                           total_titles |-> 0],
                          results, 1, word_groups, filter_words, id_to_alias,
                          title_info, new_titles)
    IN  [stats |-> SortByCountDesc(StatsList(r.word_stats, r.total_titles)),
         total_titles |-> r.total_titles]

(***************************************************************************)
(* DataProcessor._process_source_data: one step of the same-day merge.     *)
(* The three dicts it mutates are carried as one record                    *)
(* [all_results, title_info, id_to_alias].                                 *)
(***************************************************************************)
InfoRecord(time_info, data) ==
    [first_time |-> time_info, last_time |-> time_info, count |-> 1,
     ranks |-> data.ranks, url |-> data.url, mobileUrl |-> data.mobileUrl]

\* the merge without the "not in merged_ranks" test
MergeRanksNoDedup(merged_ranks, ranks) == merged_ranks \o ranks

RECURSIVE MergeRanks(_, _)
\* merged_ranks = existing_ranks.copy(); append each rank not in merged_ranks
MergeRanks(merged_ranks, ranks) ==
    IF ranks = <<>>
    THEN merged_ranks
    ELSE MergeRanks(IF \E i \in 1..Len(merged_ranks) : merged_ranks[i] = Head(ranks)
                    THEN merged_ranks
                    ELSE Append(merged_ranks, Head(ranks)),
                    Tail(ranks))

\* b or a: the later value when it is not empty
StrOrLast(a, b) == IF b # <<>> THEN b ELSE a

\* a or b, for strings
StrOr(a, b) == IF a # <<>> THEN a ELSE b

\* the else branch with the sighting's ranks appended as they come
MergeKnownTitleAppendRanks(existing_data, info, data, time_info) ==
    LET merged_ranks == existing_data.ranks \o data.ranks
    IN  [result |-> TitleData(merged_ranks,
                              StrOr(existing_data.url, data.url),
                              StrOr(existing_data.mobileUrl, data.mobileUrl)),
         info |-> [info EXCEPT !.last_time = time_info,
                               !.ranks = merged_ranks,
                               !.count = @ + 1,
                               !.url = IF @ = <<>> THEN data.url ELSE @,
                               !.mobileUrl = IF @ = <<>> THEN data.mobileUrl ELSE @]]

\* the else branch with first_time set anew at every sighting
MergeKnownTitleRestamped(existing_data, info, data, time_info) ==
    LET merged_ranks == MergeRanks(existing_data.ranks, data.ranks)
    IN  [result |-> TitleData(merged_ranks,
                              StrOr(existing_data.url, data.url),
                              StrOr(existing_data.mobileUrl, data.mobileUrl)),
         info |-> [info EXCEPT !.first_time = time_info,
                               !.last_time = time_info,
                               !.ranks = merged_ranks,
                               !.count = @ + 1,
                               !.url = IF @ = <<>> THEN data.url ELSE @,
                               !.mobileUrl = IF @ = <<>> THEN data.mobileUrl ELSE @]]

\* the else branch of the loop body: the title is already known for the source
MergeKnownTitle(existing_data, info, data, time_info) ==
    LET merged_ranks == MergeRanks(existing_data.ranks, data.ranks)
    IN  [result |-> TitleData(merged_ranks,
                              StrOr(existing_data.url, data.url),
                              StrOr(existing_data.mobileUrl, data.mobileUrl)),
         info |-> [info EXCEPT !.last_time = time_info,
                               !.ranks = merged_ranks,
                               !.count = @ + 1,
                               !.url = IF @ = <<>> THEN data.url ELSE @,
                               !.mobileUrl = IF @ = <<>> THEN data.mobileUrl ELSE @]]

RECURSIVE FirstSightInfo(_, _, _)
\* source first seen: title_info[source_name][title] = {...} for every title
FirstSightInfo(title_data, time_info, acc) ==
    IF title_data = <<>>
    THEN acc
    ELSE FirstSightInfo(Tail(title_data), time_info,
             DictSet(acc, Head(title_data).k, InfoRecord(time_info, Head(title_data).v)))

RECURSIVE MergeTitles(_, _, _, _)
\* source already known: the loop over title_data.items(); acc is
\* [results |-> all_results[source_name], info |-> title_info[source_name]]
MergeTitles(title_data, time_info, acc, j) ==
    IF j > Len(title_data)
    THEN acc
    ELSE LET title == title_data[j].k
             data == title_data[j].v
         IN  IF ~DictHas(acc.results, title)
             THEN MergeTitles(title_data, time_info,
                      [results |-> DictSet(acc.results, title,
                                       TitleData(data.ranks, data.url, data.mobileUrl)),
                       info |-> DictSet(acc.info, title, InfoRecord(time_info, data))],
                      j + 1)
             ELSE LET m == MergeKnownTitle(DictGet(acc.results, title),
                                           DictGet(acc.info, title), data, time_info)
                  IN  MergeTitles(title_data, time_info,
                          [results |-> DictSet(acc.results, title, m.result),
                           info |-> DictSet(acc.info, title, m.info)],
                          j + 1)

process_source_data(source_name, title_data, time_info, st) ==
    IF ~DictHas(st.all_results, source_name)
    THEN [all_results |-> DictSet(st.all_results, source_name, title_data),
          title_info |-> DictSet(st.title_info, source_name,
                             FirstSightInfo(title_data, time_info,
                                 DictGetOr(st.title_info, source_name, EmptyDict))),
          id_to_alias |-> DictSet(st.id_to_alias,
                              ReplaceSpaceByDash(Lower(source_name)), source_name)]
    ELSE LET m == MergeTitles(title_data, time_info,
                      [results |-> DictGet(st.all_results, source_name),
                       info |-> DictGet(st.title_info, source_name)], 1)
         IN  [all_results |-> DictSet(st.all_results, source_name, m.results),
              title_info |-> DictSet(st.title_info, source_name, m.info),
              id_to_alias |-> st.id_to_alias]

(***************************************************************************)
(* The day's txt directory: a set of files [name, content], names unique.  *)
(***************************************************************************)
\* TimeHelper.format_time_filename: strftime("%H时%M分") of a time given in
\* minutes since midnight; "h" and "m" stand for the two non-ASCII characters
format_time_filename(now) ==
    LET hour == now \div 60
        minute == now % 60
    IN  <<Digits[(hour \div 10) + 1], Digits[(hour % 10) + 1], "h",
          Digits[(minute \div 10) + 1], Digits[(minute % 10) + 1], "m">>

\* code point order of the characters that file names are made of
CharOrd(c) == IF IsDigitChar(c) THEN DigitVal(c) ELSE IF c = "h" THEN 10 ELSE 11

RECURSIVE StrLess(_, _)
\* a < b for str
StrLess(a, b) ==
    IF b = <<>>
    THEN FALSE
    ELSE IF a = <<>>
         THEN TRUE
         ELSE IF Head(a) = Head(b)
              THEN StrLess(Tail(a), Tail(b))
              ELSE CharOrd(Head(a)) < CharOrd(Head(b))

RECURSIVE SortedFiles(_)
\* sorted([f for f in txt_dir.iterdir() if f.suffix == ".txt"])
SortedFiles(dir) ==
    IF dir = {}
    THEN <<>>
    ELSE LET first == CHOOSE f \in dir : \A g \in dir \ {f} : StrLess(f.name, g.name)
         IN  <<first>> \o SortedFiles(dir \ {first})

\* open(file_path, "w") ... write: a file of the same name is replaced
WriteFile(dir, name, content) ==
    {f \in dir : f.name # name} \cup {[name |-> name, content |-> content]}

(***************************************************************************)
(* DataProcessor.detect_latest_new_titles                                  *)
(***************************************************************************)
RECURSIVE AddHistorical(_, _)
\* for source_name, titles_data in historical_data.items(): add every title
\* to historical_titles[source_name]
AddHistorical(historical_data, acc) ==
    IF historical_data = <<>>
    THEN acc
    ELSE LET source_name == Head(historical_data).k
         IN  AddHistorical(Tail(historical_data),
                 DictSet(acc, source_name,
                     DictGetOr(acc, source_name, {})
                         \cup DictKeys(Head(historical_data).v)))

\* history taken from the file before the latest only
HistoricalTitlesLastOnly(history_files, acc) ==
    IF history_files = <<>>
    THEN acc
    ELSE AddHistorical(parse_file_titles(history_files[Len(history_files)].content), acc)

RECURSIVE HistoricalTitles(_, _)
\* historical_titles: source name -> set of titles, over files[:-1]
HistoricalTitles(history_files, acc) ==
    IF history_files = <<>>
    THEN acc
    ELSE HistoricalTitles(Tail(history_files),
             AddHistorical(parse_file_titles(Head(history_files).content), acc))

\* the titles of the latest file that are not in historical_set, in order
SourceNewTitles(latest_source_titles, historical_set) ==
    SelectSeq(latest_source_titles, LAMBDA e : e.k \notin historical_set)

\* the first id_val whose alias is source_name; <<>> stands for None
SourceIdOf(source_name, id_to_alias) ==
    IF \E i \in 1..Len(id_to_alias) : id_to_alias[i].v = source_name
    THEN id_to_alias[CHOOSE i \in 1..Len(id_to_alias) :
                         /\ id_to_alias[i].v = source_name
                         /\ \A k \in 1..(i - 1) : id_to_alias[k].v # source_name].k
    ELSE <<>>

RECURSIVE NewTitlesLoop(_, _, _, _, _)
NewTitlesLoop(latest_titles, historical_titles, id_to_alias, i, acc) ==
    IF i > Len(latest_titles)
    THEN acc
    ELSE LET source_name == latest_titles[i].k
             historical_set == DictGetOr(historical_titles, source_name, {})
             source_new_titles == SourceNewTitles(latest_titles[i].v, historical_set)
             source_id == SourceIdOf(source_name, id_to_alias)
         IN  NewTitlesLoop(latest_titles, historical_titles, id_to_alias, i + 1,
                 IF source_new_titles # <<>> /\ source_id # <<>>
                 THEN DictSet(acc, source_id, source_new_titles)
                 ELSE acc)

detect_latest_new_titles(dir, id_to_alias) ==
    LET files == SortedFiles(dir)
    IN  IF Len(files) < 2
        THEN IF Len(files) = 1
             THEN parse_file_titles(files[1].content)
             ELSE EmptyDict
        ELSE LET latest_titles == parse_file_titles(files[Len(files)].content)
                 historical_titles ==
                     HistoricalTitles(SubSeq(files, 1, Len(files) - 1), EmptyDict)
             IN  NewTitlesLoop(latest_titles, historical_titles, id_to_alias, 1, EmptyDict)

(***************************************************************************)
(* DataProcessor.read_all_today_titles                                     *)
(***************************************************************************)
\* the inline decoder of one non-blank line (a second copy of the try block
\* of _parse_file_titles, statement for statement)
ReadTitleLine(line) == ExtractTags(ExtractRank(Strip(line)))

RECURSIVE ReadTitleLines(_, _)
ReadTitleLines(lines, title_data) ==
    IF lines = <<>>
    THEN title_data
    ELSE IF Strip(Head(lines)) = <<>>
         THEN ReadTitleLines(Tail(lines), title_data)
         ELSE ReadTitleLines(Tail(lines),
                  StoreTitle(title_data, ReadTitleLine(Head(lines))))

RECURSIVE ReadSections(_, _, _)
\* for section in sections: decode it and fold it with _process_source_data
ReadSections(sections, time_info, st) ==
    IF sections = <<>>
    THEN st
    ELSE LET section == Head(sections)
             lines == Split(Strip(section), LF)
         IN  IF \/ Strip(section) = <<>>
                \/ Contains(section, FAILED_MARKER)
                \/ Len(lines) < 2
             THEN ReadSections(Tail(sections), time_info, st)
             ELSE ReadSections(Tail(sections), time_info,
                      process_source_data(Strip(lines[1]),
                                          ReadTitleLines(Tail(lines), EmptyDict),
                                          time_info, st))

\* the body of the loop over files for one file; time_info = file_path.stem
ReadFile(file, st) ==
    ReadSections(Split(file.content, <<"\n", "\n">>), file.name, st)

RECURSIVE ConvertToIds(_, _, _, _)
\* id_results / id_title_info: each alias under the first id mapped to it; an
\* alias no id maps to is left out
ConvertToIds(all_results, title_info, id_to_alias, acc) ==
    IF all_results = <<>>
    THEN acc
    ELSE LET name == Head(all_results).k
             id_value == SourceIdOf(name, id_to_alias)
             found == \E i \in 1..Len(id_to_alias) : id_to_alias[i].v = name
         IN  ConvertToIds(Tail(all_results), title_info, id_to_alias,
                 IF found
                 THEN [id_results |-> DictSet(acc.id_results, id_value,
                                          Head(all_results).v),
                       id_title_info |-> DictSet(acc.id_title_info, id_value,
                                             DictGet(title_info, name))]
                 ELSE acc)

EmptyAggregate ==
    [all_results |-> EmptyDict, title_info |-> EmptyDict, id_to_alias |-> EmptyDict]

(***************************************************************************)
(* NewsAnalyzer.run: the title_info it builds for the current crawl        *)
(***************************************************************************)
RunTitleInfo(results, time_info) ==
    [i \in 1..Len(results) |->
        [k |-> results[i].k,
         v |-> [j \in 1..Len(results[i].v) |->
                   [k |-> results[i].v[j].k,
                    v |-> InfoRecord(time_info, results[i].v[j].v)]]]]

(***************************************************************************)
(* DataProcessor.load_frequency_words: the rule configuration read from    *)
(* the text of frequency_words.txt                                         *)
(***************************************************************************)
\* [part.strip() for part in parts if part.strip()]
StrippedNonBlank(parts) ==
    SelectSeq([i \in 1..Len(parts) |-> Strip(parts[i])], LAMBDA part : part # <<>>)

RECURSIVE Join(_, _)
\* sep.join(words)
Join(words, sep) ==
    IF words = <<>>
    THEN <<>>
    ELSE IF Len(words) = 1
         THEN Head(words)
         ELSE Head(words) \o sep \o Join(Tail(words), sep)

RECURSIVE ClassifyWords(_, _)
\* for word in words: "!" words are filter words, "+" words are required
\* words, the others are normal words
ClassifyWords(words, acc) ==
    IF words = <<>>
    THEN acc
    ELSE IF Head(Head(words)) = "!"
         THEN ClassifyWords(Tail(words),
                  [acc EXCEPT !.filter = Append(@, Tail(Head(words)))])
         ELSE IF Head(Head(words)) = "+"
              THEN ClassifyWords(Tail(words),
                       [acc EXCEPT !.required = Append(@, Tail(Head(words)))])
              ELSE ClassifyWords(Tail(words),
                       [acc EXCEPT !.normal = Append(@, Head(words))])

\* the three word lists of one group of lines
GroupWords(group) ==
    ClassifyWords(StrippedNonBlank(Split(group, LF)),
                  [required |-> <<>>, normal |-> <<>>, filter |-> <<>>])

\* every group of lines appended, whatever its word lists
AddGroupAlways(acc, w) ==
    [word_groups |->
         Append(acc.word_groups,
             [required |-> w.required,
              normal |-> w.normal,
              group_key |-> IF w.normal # <<>>
                            THEN Join(w.normal, <<" ">>)
                            ELSE Join(w.required, <<" ">>)]),
     filter_words |-> acc.filter_words \o w.filter]

\* what one group adds to processed_groups and filter_words
AddGroup(acc, w) ==
    [word_groups |->
         IF w.required # <<>> \/ w.normal # <<>>
         THEN Append(acc.word_groups,
                  [required |-> w.required,
                   normal |-> w.normal,
                   group_key |-> IF w.normal # <<>>
                                 THEN Join(w.normal, <<" ">>)
                                 ELSE Join(w.required, <<" ">>)])
         ELSE acc.word_groups,
     filter_words |-> acc.filter_words \o w.filter]

RECURSIVE LoadGroups(_, _)
\* for group in word_groups
LoadGroups(groups, acc) ==
    IF groups = <<>>
    THEN acc
    ELSE LoadGroups(Tail(groups), AddGroup(acc, GroupWords(Head(groups))))

\* the (processed_groups, filter_words) of a file with this content
load_frequency_words(content) ==
    LoadGroups(StrippedNonBlank(Split(content, <<"\n", "\n">>)),
               [word_groups |-> <<>>, filter_words |-> <<>>])

(***************************************************************************)
(* Bounds and input pools                                                  *)
(***************************************************************************)
\* runs of NewsAnalyzer.run in one day
MaxRuns == 3

\* items in one response of the codec specification
MaxItems == 3

\* groups in the loaded keyword configuration
MaxGroups == 3

\* the time of day before the first run, in minutes since midnight (09:58)
StartTime == 598

\* NewsAnalyzer.run's ids, two of its entries: a plain id ("tieba": alias = id)
\* and an (id, alias) pair whose alias has a space and upper case
\* (as "bilibili-hot-search", "bilibili ..")
ids ==
    <<[id |-> <<"t", "b">>, alias |-> <<"t", "b">>],
      [id |-> <<"b", "l">>, alias |-> <<"B", " ", "s">>]>>

Item(title, url, mobile_url) ==
    [has_title |-> TRUE, title |-> title, url |-> url, mobileUrl |-> mobile_url]

\* an item of the payload that has no "title" key: item["title"] raises
ItemWithoutTitle == [has_title |-> FALSE, title |-> <<>>, url |-> <<>>, mobileUrl |-> <<>>]

Ok(items) == [ok |-> TRUE, items |-> items]

Failed == [ok |-> FALSE, items |-> <<>>]

SeqsUpTo(S, n) == UNION {[1..k -> S] : k \in 0..n}

\* items of the codec specification: plain, with both urls, with a leading
\* space, empty, with a digit prefix of its own, with a literal URL tag,
\* without a "title" key
CodecItems ==
    {Item(<<"a">>, <<>>, <<>>),
     Item(<<"a", " ", "b">>, <<"u">>, <<"m">>),
     Item(<<" ", "b">>, <<>>, <<>>),
     Item(<<>>, <<>>, <<>>),
     Item(<<"2", ".", " ", "c">>, <<"u">>, <<>>),
     Item(<<"a", " ", "[", "U", "R", "L", ":", "u", "]">>, <<>>, <<>>),
     ItemWithoutTitle}

CodecResponses ==
    {<<Ok(items), second>> :
        items \in SeqsUpTo(CodecItems, MaxItems),
        second \in {Failed, Ok(<<Item(<<"a">>, <<>>, <<>>)>>)}}

\* responses of the statistics specification; the two longest hold twelve
\* titles together
StatsResponses ==
    {<<first, second>> :
        first \in {Ok(<<>>),
                   Ok(<<Item(<<"a">>, <<>>, <<>>)>>),
                   Ok(<<Item(<<"a", "b">>, <<"u">>, <<>>),
                        Item(<<"B", "c">>, <<>>, <<>>)>>),
                   Ok(<<Item(<<"a">>, <<>>, <<>>),
                        Item(<<"b">>, <<>>, <<>>),
                        Item(<<"c">>, <<>>, <<>>)>>),
                   Ok(<<Item(<<"a">>, <<>>, <<>>),
                        Item(<<"b">>, <<>>, <<>>),
                        Item(<<"a", "b">>, <<>>, <<>>),
                        Item(<<"B", "c">>, <<>>, <<>>),
                        Item(<<"c">>, <<>>, <<>>),
                        Item(<<"d">>, <<>>, <<>>)>>)},
        second \in {Failed,
                    Ok(<<Item(<<"a">>, <<>>, <<>>)>>),
                    Ok(<<Item(<<"B", "c">>, <<>>, <<>>),
                         Item(<<"d">>, <<>>, <<>>)>>),
                    Ok(<<Item(<<"B", "c">>, <<>>, <<>>),
                         Item(<<"d">>, <<>>, <<>>),
                         Item(<<"a", "c">>, <<>>, <<>>),
                         Item(<<"e">>, <<>>, <<>>),
                         Item(<<"f">>, <<>>, <<>>),
                         Item(<<"g">>, <<>>, <<>>)>>)}}

\* rank lists of the inputs of the rank specification
RankLists == {<<>>, <<2>>, <<1, 3>>}

\* results of the rank specification: one source with two titles
RankResults ==
    {<<[k |-> <<"t", "b">>,
        v |-> <<[k |-> <<"a">>, v |-> TitleData(first, <<>>, <<>>)],
                [k |-> <<"a", " ", "b">>, v |-> TitleData(second, <<>>, <<>>)]>>]>> :
        first \in RankLists, second \in RankLists}

\* title_info of the rank specification: none, one for the first title of the
\* source, one for another source
RankInfos ==
    {EmptyDict,
     <<[k |-> <<"b", "l">>,
        v |-> <<[k |-> <<"a">>,
                 v |-> InfoRecord(format_time_filename(StartTime),
                                  TitleData(<<7>>, <<>>, <<>>))]>>]>>}
    \cup {<<[k |-> <<"t", "b">>,
             v |-> <<[k |-> <<"a">>,
                      v |-> InfoRecord(format_time_filename(StartTime),
                                       TitleData(ranks, <<>>, <<>>))]>>]>> :
              ranks \in {<<>>, <<4>>, <<2, 5>>}}

\* rule configurations of the rank specification: no rule, a rule that both
\* titles match, a rule that one title matches
RankRules == {load_frequency_words(content) : content \in {<<>>, <<"a">>, <<"b">>}}

\* the switches of CONFIG, the webhook URL in effect (os.environ's or
\* CONFIG's, "" or set) and FEISHU_REPORT_TYPE, in every combination
PushConfigs ==
    [FEISHU_ENABLE : BOOLEAN,
     BARK_ENABLE : BOOLEAN,
     CONTINUE_CRAWL_IF_PUSH_ALL_OFF : BOOLEAN,
     CONTINUE_WITHOUT_FEISHU : BOOLEAN,
     FEISHU_WEBHOOK_URL : {<<>>, <<"w">>},
     FEISHU_REPORT_TYPE : {"current", "daily", "both"}]

\* responses of the push specification: a crawl with a title, a crawl with
\* every source failed
PushResponses ==
    {<<Ok(<<Item(<<"a">>, <<>>, <<>>)>>), Failed>>,
     <<Failed, Failed>>}

\* contents of frequency_words.txt of the push specification
PushFiles == {<<>>, <<"a">>}

\* responses of the midnight specification
MidnightResponses ==
    {<<Ok(<<Item(<<"a">>, <<>>, <<>>)>>), Failed>>,
     <<Ok(<<Item(<<"b">>, <<>>, <<>>), Item(<<"a">>, <<"u">>, <<>>)>>),
       Ok(<<Item(<<"c">>, <<>>, <<>>)>>)>>}

\* responses of the day specification
DayResponses ==
    {<<first, second>> :
        first \in {Ok(<<Item(<<"a">>, <<>>, <<>>)>>),
                   Ok(<<Item(<<"b">>, <<>>, <<>>),
                        Item(<<"a">>, <<"u">>, <<"m">>)>>),
                   Ok(<<Item(<<"a">>, <<"v">>, <<>>),
                        Item(<<"a">>, <<>>, <<>>)>>)},
        second \in {Failed,
                    Ok(<<Item(<<"a">>, <<>>, <<>>)>>),
                    Ok(<<Item(<<"c">>, <<>>, <<>>)>>)}}

\* groups as load_frequency_words builds them: group_key is the normal words
\* joined by " ", or the required words when there is no normal word
Group(required, normal, group_key) ==
    [required |-> required, normal |-> normal, group_key |-> group_key]

GroupPool ==
    {Group(<<>>, <<<<"a">>>>, <<"a">>),
     Group(<<<<"b">>>>, <<>>, <<"b">>),
     Group(<<<<"a">>>>, <<>>, <<"a">>),
     Group(<<<<"a">>, <<"B">>>>, <<>>, <<"a", " ", "B">>),
     Group(<<<<"c">>>>, <<<<"A">>, <<"b">>>>, <<"A", " ", "b">>)}

FilterPool == {<<>>, <<<<"C">>>>, <<<<"d">>, <<"a", "b">>>>}

ConfigPool ==
    {[word_groups |-> g, filter_words |-> f] :
        g \in SeqsUpTo(GroupPool, MaxGroups), f \in FilterPool}

\* groups of lines of frequency_words.txt
FrequencyGroups ==
    {<<"a">>,
     <<"+", "a">>,
     <<"+">>,
     <<"!", "c">>,
     <<"b", "\n", "+", "a">>,
     <<" ", "a", "\n", "!", "c">>}

\* contents of frequency_words.txt: up to MaxGroups groups with a blank line
\* between them; the empty content also stands for a missing file
FrequencyFiles ==
    {Join(groups, <<"\n", "\n">>) : groups \in SeqsUpTo(FrequencyGroups, MaxGroups)}

\* lines in one section of the files of the decoder specification
MaxLines == 2

\* lines of a section after its first: with a rank, without, with a rank that
\* int() rejects, with a prefix that is no number, with two digits and a URL
\* tag, with the text of the failure marker as title, blank
SnapshotLines ==
    {<<"1", ".", " ", "a">>,
     <<"a", " ", "b">>,
     <<SuperscriptTwo, ".", " ", "d">>,
     <<"x", ".", " ", "c">>,
     <<"1", "2", ".", " ", "b">> \o URL_TAG \o <<"u", "]">>,
     <<"1", ".", " ">> \o FAILED_MARKER,
     <<" ">>}

\* the first section of a file: a source name and up to MaxLines lines
SnapshotSections ==
    {Join(<<<<"B", " ", "s">>>> \o lines, LF) : lines \in SeqsUpTo(SnapshotLines, MaxLines)}

\* what follows the first section: nothing, a second section of the same
\* source, a section of a source whose name lower-cases and dashes to the
\* same id, a section of another source, the failure section
SnapshotTails ==
    {<<>>,
     <<<<"B", " ", "s", "\n", "3", ".", " ", "a">>>>,
     <<<<"b", "-", "s", "\n", "1", ".", " ", "c">>>>,
     <<<<"t", "b", "\n", "2", ".", " ", "a">>>>,
     <<FAILED_MARKER \o LF \o <<"t", "b", " ", "(", "I", "D", ":", " ", "t", "b", ")">>>>}

\* contents of a snapshot file of the decoder specification
SnapshotFiles ==
    {Join(<<first>> \o tail, <<"\n", "\n">>) \o LF :
        first \in SnapshotSections, tail \in SnapshotTails}

(***************************************************************************)
(* State                                                                   *)
(***************************************************************************)
VARIABLES
    pc,            \* where the run is
    now,           \* the clock, in minutes since midnight
    runs,          \* runs started today
    dir,           \* output/<date>/txt
    results,       \* crawl_websites: id -> title -> data
    id_to_alias,   \* crawl_websites: id -> alias
    failed_ids,    \* crawl_websites: the ids that failed
    new_titles,    \* detect_latest_new_titles
    word_groups,   \* load_frequency_words
    filter_words,  \* load_frequency_words
    title_info,    \* the title_info handed to count_word_frequency
    stats,         \* count_word_frequency
    total_titles,  \* count_word_frequency
    agg,           \* read_all_today_titles: all_results, title_info, id_to_alias
    read_pos,      \* read_all_today_titles: the next file of the loop
    daily,         \* read_all_today_titles: what it returns
    CONFIG,        \* the switches of CONFIG and the webhook URL in effect
    feishu_posts,  \* the requests posted to the Feishu webhook, in order
    fetch          \* fetch_data: the retry loop of one call

vars ==
    <<pc, now, runs, dir, results, id_to_alias, failed_ids, new_titles, word_groups,
      filter_words, title_info, stats, total_titles, agg, read_pos, daily,
      CONFIG, feishu_posts, fetch>>

crawlVars == <<results, id_to_alias, failed_ids>>

configVars == <<word_groups, filter_words, title_info>>

statsVars == <<stats, total_titles>>

readVars == <<agg, read_pos, daily>>

pushVars == <<CONFIG, feishu_posts>>

\* CONFIG as the source has it; no FEISHU_WEBHOOK_URL in the environment
DefaultConfig ==
    [FEISHU_ENABLE |-> TRUE,
     BARK_ENABLE |-> TRUE,
     CONTINUE_CRAWL_IF_PUSH_ALL_OFF |-> TRUE,
     CONTINUE_WITHOUT_FEISHU |-> TRUE,
     FEISHU_WEBHOOK_URL |-> <<>>,
     FEISHU_REPORT_TYPE |-> "daily"]

\* fetch_data called with max_retries, before its loop: retries = 0, no
\* request made, no sleep, nothing returned;
\* trace: the requests made, each by how it ended, and the sleeps, in order
FetchCall(max_retries) ==
    [max_retries |-> max_retries, retries |-> 0, trace |-> <<>>,
     at |-> "loop", returned |-> "no"]

EmptyDaily ==
    [id_results |-> EmptyDict, id_to_alias |-> EmptyDict, id_title_info |-> EmptyDict]

Init ==
    /\ pc = "idle"
    /\ now = StartTime
    /\ runs = 0
    /\ dir = {}
    /\ results = EmptyDict
    /\ id_to_alias = EmptyDict
    /\ failed_ids = <<>>
    /\ new_titles = EmptyDict
    /\ word_groups = <<>>
    /\ filter_words = <<>>
    /\ title_info = EmptyDict
    /\ stats = <<>>
    /\ total_titles = 0
    /\ agg = EmptyAggregate
    /\ read_pos = 0
    /\ daily = EmptyDaily
    /\ CONFIG = DefaultConfig
    /\ feishu_posts = <<>>
    /\ fetch = FetchCall(2)

\* the decoders as functions of the text of a file: the day directory holds
\* one file, of any content of SnapshotFiles, and the reads are about to start
InitFiles ==
    /\ pc = "detect"
    /\ now = StartTime
    /\ runs = MaxRuns
    /\ dir \in {{[name |-> format_time_filename(StartTime), content |-> content]} :
                   content \in SnapshotFiles}
    /\ results = EmptyDict
    /\ id_to_alias = EmptyDict
    /\ failed_ids = <<>>
    /\ new_titles = EmptyDict
    /\ word_groups = <<>>
    /\ filter_words = <<>>
    /\ title_info = EmptyDict
    /\ stats = <<>>
    /\ total_titles = 0
    /\ agg = EmptyAggregate
    /\ read_pos = 0
    /\ daily = EmptyDaily
    /\ CONFIG = DefaultConfig
    /\ feishu_posts = <<>>
    /\ fetch = FetchCall(2)

\* a day under any setting of the switches
InitPush ==
    /\ pc = "idle"
    /\ now = StartTime
    /\ runs = 0
    /\ dir = {}
    /\ results = EmptyDict
    /\ id_to_alias = EmptyDict
    /\ failed_ids = <<>>
    /\ new_titles = EmptyDict
    /\ word_groups = <<>>
    /\ filter_words = <<>>
    /\ title_info = EmptyDict
    /\ stats = <<>>
    /\ total_titles = 0
    /\ agg = EmptyAggregate
    /\ read_pos = 0
    /\ daily = EmptyDaily
    /\ CONFIG \in PushConfigs
    /\ feishu_posts = <<>>
    /\ fetch = FetchCall(2)

\* count_word_frequency as a function of its arguments: any results,
\* title_info and rules of the pools, and the count about to start
InitRanks ==
    /\ pc = "count"
    /\ now = StartTime
    /\ runs = MaxRuns
    /\ dir = {}
    /\ results \in RankResults
    /\ id_to_alias = <<[k |-> <<"t", "b">>, v |-> <<"t", "b">>]>>
    /\ failed_ids = <<>>
    /\ new_titles = EmptyDict
    /\ \E rules \in RankRules :
          /\ word_groups = rules.word_groups
          /\ filter_words = rules.filter_words
    /\ title_info \in RankInfos
    /\ stats = <<>>
    /\ total_titles = 0
    /\ agg = EmptyAggregate
    /\ read_pos = 0
    /\ daily = EmptyDaily
    /\ CONFIG = DefaultConfig
    /\ feishu_posts = <<>>
    /\ fetch = FetchCall(2)

(***************************************************************************)
(* NewsAnalyzer.run, step by step                                          *)
(***************************************************************************)
\* a new process starts a minute after the last one; nothing is carried over
\* but the directory
StartRun ==
    /\ pc = "idle"
    /\ runs < MaxRuns
    /\ pc' = "crawl"
    /\ now' = now + 1
    /\ runs' = runs + 1
    /\ results' = EmptyDict
    /\ id_to_alias' = EmptyDict
    /\ failed_ids' = <<>>
    /\ new_titles' = EmptyDict
    /\ agg' = EmptyAggregate
    /\ read_pos' = 0
    /\ daily' = EmptyDaily
    /\ UNCHANGED <<pushVars, fetch, dir, configVars, statsVars>>

\* a new process started in the minute of the last one: format_time_filename
\* gives the same name again
StartRunSameMinute ==
    /\ pc = "idle"
    /\ runs >= 1
    /\ runs < MaxRuns
    /\ pc' = "crawl"
    /\ now' = now
    /\ runs' = runs + 1
    /\ results' = EmptyDict
    /\ id_to_alias' = EmptyDict
    /\ failed_ids' = <<>>
    /\ new_titles' = EmptyDict
    /\ agg' = EmptyAggregate
    /\ read_pos' = 0
    /\ daily' = EmptyDaily
    /\ UNCHANGED <<pushVars, fetch, dir, configVars, statsVars>>

CrawlWebsites(pool) ==
    /\ pc = "crawl"
    /\ \E responses \in pool :
          LET c == crawl_websites(ids, responses)
          IN  /\ results' = c.results
              /\ id_to_alias' = c.id_to_alias
              /\ failed_ids' = c.failed_ids
    /\ pc' = "save"
    /\ UNCHANGED <<pushVars, fetch, now, runs, dir, new_titles, configVars, statsVars, readVars>>

SaveTitlesToFile ==
    /\ pc = "save"
    /\ dir' = WriteFile(dir, format_time_filename(now),
                        save_titles_to_file(results, id_to_alias, failed_ids))
    /\ pc' = "detect"
    /\ UNCHANGED <<pushVars, fetch, now, runs, crawlVars, new_titles, configVars, statsVars, readVars>>

\* midnight (Beijing time) falls between the save and a read: each read
\* takes the day directory of format_date_folder() anew, and the directory of
\* the new day does not exist yet
DateRollover ==
    /\ pc \in {"detect", "summary"}
    /\ dir # {}
    /\ dir' = {}
    /\ now' = 0
    /\ UNCHANGED <<pushVars, fetch, pc, runs, crawlVars, new_titles, configVars, statsVars, readVars>>

DetectLatestNewTitles(next_pc) ==
    /\ pc = "detect"
    /\ new_titles' = detect_latest_new_titles(dir, id_to_alias)
    /\ pc' = next_pc
    /\ UNCHANGED <<pushVars, fetch, now, runs, dir, crawlVars, configVars, statsVars, readVars>>

\* title_info = {...}; word_groups, filter_words = load_frequency_words()
LoadFrequencyWords ==
    /\ pc = "load"
    /\ \E config \in ConfigPool :
          /\ word_groups' = config.word_groups
          /\ filter_words' = config.filter_words
    /\ title_info' = RunTitleInfo(results, format_time_filename(now))
    /\ pc' = "count"
    /\ UNCHANGED <<pushVars, fetch, now, runs, dir, crawlVars, new_titles, statsVars, readVars>>

\* as LoadFrequencyWords, the configuration coming from the text of the file
LoadFrequencyWordsFile(files) ==
    /\ pc = "load"
    /\ \E content \in files :
          /\ word_groups' = load_frequency_words(content).word_groups
          /\ filter_words' = load_frequency_words(content).filter_words
    /\ title_info' = RunTitleInfo(results, format_time_filename(now))
    /\ pc' = "count"
    /\ UNCHANGED <<pushVars, fetch, now, runs, dir, crawlVars, new_titles, statsVars, readVars>>

CountWordFrequency ==
    /\ pc = "count"
    /\ LET r == count_word_frequency(results, word_groups, filter_words,
                                     id_to_alias, title_info, new_titles)
       IN  /\ stats' = r.stats
           /\ total_titles' = r.total_titles
    /\ pc' = "counted"
    /\ UNCHANGED <<pushVars, fetch, now, runs, dir, crawlVars, new_titles, configVars, readVars>>

(***************************************************************************)
(* NewsAnalyzer.generate_daily_summary: read_all_today_titles file by      *)
(* file, then detect_latest_new_titles with the id_to_alias it returns     *)
(***************************************************************************)
ReadStart ==
    /\ pc = "summary"
    /\ agg' = EmptyAggregate
    /\ read_pos' = 1
    /\ pc' = "read"
    /\ UNCHANGED <<pushVars, fetch, now, runs, dir, crawlVars, new_titles, configVars, statsVars, daily>>

ReadNextFile ==
    /\ pc = "read"
    /\ read_pos <= Len(SortedFiles(dir))
    /\ agg' = ReadFile(SortedFiles(dir)[read_pos], agg)
    /\ read_pos' = read_pos + 1
    /\ UNCHANGED <<pushVars, fetch, pc, now, runs, dir, crawlVars, new_titles, configVars, statsVars, daily>>

\* the summary goes on to the detector whatever was read
ReadConvertAlwaysReports ==
    /\ pc = "read"
    /\ read_pos > Len(SortedFiles(dir))
    /\ LET c == ConvertToIds(agg.all_results, agg.title_info, agg.id_to_alias,
                             [id_results |-> EmptyDict, id_title_info |-> EmptyDict])
       IN  /\ daily' = [id_results |-> c.id_results,
                        id_to_alias |-> agg.id_to_alias,
                        id_title_info |-> c.id_title_info]
           /\ pc' = "detect_daily"
    /\ UNCHANGED <<pushVars, fetch, now, runs, dir, crawlVars, new_titles, configVars, statsVars,
                   agg, read_pos>>

ReadConvert ==
    /\ pc = "read"
    /\ read_pos > Len(SortedFiles(dir))
    /\ LET c == ConvertToIds(agg.all_results, agg.title_info, agg.id_to_alias,
                             [id_results |-> EmptyDict, id_title_info |-> EmptyDict])
       IN  /\ daily' = [id_results |-> c.id_results,
                        id_to_alias |-> agg.id_to_alias,
                        id_title_info |-> c.id_title_info]
           \* if not all_results: return None
           /\ pc' = IF c.id_results = EmptyDict THEN "no_report" ELSE "detect_daily"
    /\ UNCHANGED <<pushVars, fetch, now, runs, dir, crawlVars, new_titles, configVars, statsVars,
                   agg, read_pos>>

DetectDaily ==
    /\ pc = "detect_daily"
    /\ new_titles' = detect_latest_new_titles(dir, daily.id_to_alias)
    /\ pc' = "idle"
    /\ UNCHANGED <<pushVars, fetch, now, runs, dir, crawlVars, configVars, statsVars, readVars>>

\* if not all_results: generate_daily_summary returns None and run goes on to
\* its end
NoDailyReport ==
    /\ pc = "no_report"
    /\ pc' = "idle"
    /\ UNCHANGED <<pushVars, fetch, now, runs, dir, crawlVars, new_titles, configVars, statsVars, readVars>>

(***************************************************************************)
(* The pushes to the Feishu webhook.  feishu_posts holds the requests the  *)
(* current run has posted                                                  *)
(***************************************************************************)
\* ReportGenerator.send_to_feishu: returns without a request when there is no
\* webhook URL, else posts
send_to_feishu(posts, config, report_type) ==
    IF config.FEISHU_WEBHOOK_URL = <<>>
    THEN posts
    ELSE Append(posts, [by |-> "send_to_feishu", report_type |-> report_type])

\* send_reports: posts when FEISHU_ENABLE is set and there is a webhook URL
send_reports(posts, config) ==
    IF config.FEISHU_ENABLE /\ config.FEISHU_WEBHOOK_URL # <<>>
    THEN Append(posts, [by |-> "send_reports", report_type |-> "text"])
    ELSE posts

\* the head of run: it returns before the crawl when both pushes are off and
\* CONTINUE_CRAWL_IF_PUSH_ALL_OFF is not set, or when there is no webhook URL
\* and CONTINUE_WITHOUT_FEISHU is not set
StartRunConfigured ==
    /\ pc = "idle"
    /\ runs < MaxRuns
    /\ pc' = IF \/ /\ ~CONFIG.FEISHU_ENABLE
                    /\ ~CONFIG.BARK_ENABLE
                    /\ ~CONFIG.CONTINUE_CRAWL_IF_PUSH_ALL_OFF
                 \/ /\ CONFIG.FEISHU_WEBHOOK_URL = <<>>
                    /\ ~CONFIG.CONTINUE_WITHOUT_FEISHU
             THEN "idle"
             ELSE "crawl"
    /\ now' = now + 1
    /\ runs' = runs + 1
    /\ results' = EmptyDict
    /\ id_to_alias' = EmptyDict
    /\ failed_ids' = <<>>
    /\ new_titles' = EmptyDict
    /\ agg' = EmptyAggregate
    /\ read_pos' = 0
    /\ daily' = EmptyDaily
    /\ feishu_posts' = <<>>
    /\ UNCHANGED <<CONFIG, fetch, dir, configVars, statsVars>>

\* if self.feishu_report_type in ["current", "both"]: send_to_feishu(...)
SendCurrentReport ==
    /\ pc = "counted"
    /\ feishu_posts' = IF CONFIG.FEISHU_REPORT_TYPE \in {"current", "both"}
                       THEN send_to_feishu(feishu_posts, CONFIG, "current")
                       ELSE feishu_posts
    /\ pc' = "send_reports"
    /\ UNCHANGED <<CONFIG, fetch, now, runs, dir, crawlVars, new_titles, configVars,
                   statsVars, readVars>>

\* send_reports(report_text), then generate_daily_summary
SendReports ==
    /\ pc = "send_reports"
    /\ feishu_posts' = send_reports(feishu_posts, CONFIG)
    /\ pc' = "summary"
    /\ UNCHANGED <<CONFIG, fetch, now, runs, dir, crawlVars, new_titles, configVars,
                   statsVars, readVars>>

\* generate_daily_summary after its read, when all_results is not empty: the
\* new titles, the rules (the file the run has read already), the
\* statistics of the day, and send_to_feishu for "daily" and "both"
DailySummaryReport ==
    /\ pc = "detect_daily"
    /\ new_titles' = detect_latest_new_titles(dir, daily.id_to_alias)
    /\ LET r == count_word_frequency(daily.id_results, word_groups, filter_words,
                                     daily.id_to_alias, daily.id_title_info, new_titles')
       IN  /\ stats' = r.stats
           /\ total_titles' = r.total_titles
    /\ feishu_posts' = IF CONFIG.FEISHU_REPORT_TYPE \in {"daily", "both"}
                       THEN send_to_feishu(feishu_posts, CONFIG, "daily")
                       ELSE feishu_posts
    /\ pc' = "idle"
    /\ UNCHANGED <<CONFIG, fetch, now, runs, dir, crawlVars, configVars, readVars>>

(***************************************************************************)
(* Specifications                                                          *)
(***************************************************************************)
\* one run up to its statistics
Next ==
    \/ StartRun
    \/ CrawlWebsites(StatsResponses)
    \/ SaveTitlesToFile
    \/ DetectLatestNewTitles("load")
    \/ LoadFrequencyWords
    \/ CountWordFrequency

Spec == Init /\ [][Next]_vars

\* the first run of a day up to new-title detection, over the codec's inputs
NextCodec ==
    \/ StartRun
    \/ CrawlWebsites(CodecResponses)
    \/ SaveTitlesToFile
    \/ DetectLatestNewTitles("done")

SpecCodec == Init /\ [][NextCodec]_vars

\* the runs of a day, each followed by the daily summary's reads
NextDay ==
    \/ StartRun
    \/ CrawlWebsites(DayResponses)
    \/ SaveTitlesToFile
    \/ DetectLatestNewTitles("summary")
    \/ ReadStart
    \/ ReadNextFile
    \/ ReadConvert
    \/ DetectDaily

SpecDay == Init /\ [][NextDay]_vars

\* one run up to its statistics, the rules read from frequency_words.txt
NextConfig ==
    \/ StartRun
    \/ CrawlWebsites(DayResponses)
    \/ SaveTitlesToFile
    \/ DetectLatestNewTitles("load")
    \/ LoadFrequencyWordsFile(FrequencyFiles)
    \/ CountWordFrequency

SpecConfig == Init /\ [][NextConfig]_vars

\* the runs of a day up to new-title detection, a run starting in the minute
\* of the last one or in the next
NextMinute ==
    \/ StartRun
    \/ StartRunSameMinute
    \/ CrawlWebsites(DayResponses)
    \/ SaveTitlesToFile
    \/ DetectLatestNewTitles("idle")

SpecMinute == Init /\ [][NextMinute]_vars

\* the two decoders and the conversion to ids applied to one file
NextFiles ==
    \/ DetectLatestNewTitles("summary")
    \/ ReadStart
    \/ ReadNextFile
    \/ ReadConvert
    \/ NoDailyReport
    \/ DetectDaily

SpecFiles == InitFiles /\ [][NextFiles]_vars

\* the runs of a day and of the next, midnight falling within a run
NextMidnight ==
    \/ StartRun
    \/ CrawlWebsites(MidnightResponses)
    \/ SaveTitlesToFile
    \/ DateRollover
    \/ DetectLatestNewTitles("summary")
    \/ ReadStart
    \/ ReadNextFile
    \/ ReadConvert
    \/ NoDailyReport
    \/ DetectDaily

SpecMidnight == Init /\ [][NextMidnight]_vars

\* whole runs, with their reports and pushes, under any setting of the switches
NextPush ==
    \/ StartRunConfigured
    \/ CrawlWebsites(PushResponses)
    \/ SaveTitlesToFile
    \/ DetectLatestNewTitles("load")
    \/ LoadFrequencyWordsFile(PushFiles)
    \/ CountWordFrequency
    \/ SendCurrentReport
    \/ SendReports
    \/ ReadStart
    \/ ReadNextFile
    \/ ReadConvert
    \/ NoDailyReport
    \/ DailySummaryReport

SpecPush == InitPush /\ [][NextPush]_vars

(***************************************************************************)
(* fetch_data: the retry loop of one call                                  *)
(***************************************************************************)

\* the largest max_retries a call is made with; the default of the source is 2
MaxRetries == 2

notFetch ==
    <<pc, now, runs, dir, results, id_to_alias, failed_ids, new_titles, word_groups,
      filter_words, title_info, stats, total_titles, agg, read_pos, daily,
      CONFIG, feishu_posts>>

\* how one request can end: the two statuses that are taken, and the four
\* ways into the except clause (requests.get raises, raise_for_status
\* raises, json.loads raises, the status is another one)
FetchPayloads == {"success", "cache"}

FetchFailures == {"timeout", "http", "json", "status"}

\* max_retries = -1 is a call whose loop never runs
InitFetch ==
    /\ pc = "idle"
    /\ now = StartTime
    /\ runs = 0
    /\ dir = {}
    /\ results = EmptyDict
    /\ id_to_alias = EmptyDict
    /\ failed_ids = <<>>
    /\ new_titles = EmptyDict
    /\ word_groups = <<>>
    /\ filter_words = <<>>
    /\ title_info = EmptyDict
    /\ stats = <<>>
    /\ total_titles = 0
    /\ agg = EmptyAggregate
    /\ read_pos = 0
    /\ daily = EmptyDaily
    /\ CONFIG = DefaultConfig
    /\ feishu_posts = <<>>
    /\ \E max_retries \in -1 .. MaxRetries : fetch = FetchCall(max_retries)

\* the pass that gives up one request early
FetchAttemptOffByOne ==
    /\ fetch.at = "loop"
    /\ fetch.returned = "no"
    /\ fetch.retries <= fetch.max_retries
    /\ \E response \in FetchPayloads \cup FetchFailures :
          IF response \in FetchPayloads
          THEN fetch' = [fetch EXCEPT !.trace = Append(@, response),
                                      !.returned = "payload"]
          ELSE LET retries == fetch.retries + 1
               IN  IF retries < fetch.max_retries
                   THEN fetch' = [fetch EXCEPT !.trace = Append(@, response),
                                               !.retries = retries,
                                               !.at = "sleep"]
                   ELSE fetch' = [fetch EXCEPT !.trace = Append(@, response),
                                               !.retries = retries,
                                               !.returned = "none"]
    /\ UNCHANGED notFetch

\* one pass of the while body up to the return or the sleep
FetchAttempt ==
    /\ fetch.at = "loop"
    /\ fetch.returned = "no"
    /\ fetch.retries <= fetch.max_retries
    /\ \E response \in FetchPayloads \cup FetchFailures :
          IF response \in FetchPayloads
          THEN fetch' = [fetch EXCEPT !.trace = Append(@, response),
                                      !.returned = "payload"]
          ELSE LET retries == fetch.retries + 1
               IN  IF retries <= fetch.max_retries
                   THEN fetch' = [fetch EXCEPT !.trace = Append(@, response),
                                               !.retries = retries,
                                               !.at = "sleep"]
                   ELSE fetch' = [fetch EXCEPT !.trace = Append(@, response),
                                               !.retries = retries,
                                               !.returned = "none"]
    /\ UNCHANGED notFetch

\* time.sleep(wait_time) returns
FetchSleep ==
    /\ fetch.at = "sleep"
    /\ fetch.returned = "no"
    /\ fetch' = [fetch EXCEPT !.trace = Append(@, "sleep"), !.at = "loop"]
    /\ UNCHANGED notFetch

\* the while condition is false: the return after the loop
FetchLoopExit ==
    /\ fetch.at = "loop"
    /\ fetch.returned = "no"
    /\ ~(fetch.retries <= fetch.max_retries)
    /\ fetch' = [fetch EXCEPT !.returned = "none"]
    /\ UNCHANGED notFetch

NextFetch ==
    \/ FetchAttempt
    \/ FetchSleep
    \/ FetchLoopExit

\* the call runs on: a request ends (timeout=10) and a sleep ends
SpecFetch == InitFetch /\ [][NextFetch]_vars /\ WF_vars(NextFetch)

\* count_word_frequency applied to the inputs of the rank specification
NextRanks == CountWordFrequency

SpecRanks == InitRanks /\ [][NextRanks]_vars

(***************************************************************************)
(* Vocabulary of the properties                                            *)
(***************************************************************************)
\* the display alias that stands for a source id in files and in statistics
AliasOf(source_id) == DictGetOr(id_to_alias, source_id, source_id)

\* the (source id, title) pairs of the crawl
ResultPairs ==
    UNION {{<<results[i].k, results[i].v[j].k>> : j \in 1..Len(results[i].v)} :
              i \in 1..Len(results)}

\* word is a substring of title, letter case ignored
HasWord(title, word) ==
    \E i \in 1..(Len(title) + 1) :
        /\ i + Len(word) - 1 <= Len(title)
        /\ \A j \in 1..Len(word) : LowerChar(title[i + j - 1]) = LowerChar(word[j])

HasFilterWord(title) == \E k \in 1..Len(filter_words) : HasWord(title, filter_words[k])

\* the match predicate of one group
GroupHolds(title, group) ==
    /\ \/ group.required = <<>>
       \/ \A k \in 1..Len(group.required) : HasWord(title, group.required[k])
    /\ \/ group.normal = <<>>
       \/ \E k \in 1..Len(group.normal) : HasWord(title, group.normal[k])

HoldingGroups(title) == {g \in 1..Len(word_groups) : GroupHolds(title, word_groups[g])}

\* the first group in configured order whose predicate holds for a title that
\* has no filter word; 0 when there is none
FirstHoldingGroup(title) ==
    IF HasFilterWord(title) \/ HoldingGroups(title) = {}
    THEN 0
    ELSE CHOOSE g \in HoldingGroups(title) : \A h \in HoldingGroups(title) : g <= h

\* the (alias, title) pairs in the title list of the n-th statistic
Attributed(n) ==
    {<<stats[n].titles[p].source_alias, stats[n].titles[p].title>> :
        p \in 1..Len(stats[n].titles)}

\* the pairs whose first holding group has the key word
PairsOfKey(word) ==
    {pr \in ResultPairs :
        /\ FirstHoldingGroup(pr[2]) # 0
        /\ word_groups[FirstHoldingGroup(pr[2])].group_key = word}

HasTag(title) == Contains(title, URL_TAG) \/ Contains(title, MOBILE_TAG)

\* the snapshot of the claim: no tag in a title, at most one rank per title
TagFreeSingleRank ==
    \A i \in 1..Len(results) : \A j \in 1..Len(results[i].v) :
        /\ ~HasTag(results[i].v[j].k)
        /\ Len(results[i].v[j].v.ranks) <= 1

\* the file the current run wrote
WrittenFile == CHOOSE f \in dir : f.name = format_time_filename(now)

(***************************************************************************)
(* C1: decoding the text that save_titles_to_file wrote gives back, for    *)
(* every source and every title of a snapshot whose titles hold no tag and *)
(* have at most one rank, the same title, url, mobileUrl and rank.         *)
(* Fails: the decoder strips the title, and takes "4. " for a title "4.".  *)
(***************************************************************************)
C1_RoundTrip ==
    (pc \in {"detect", "done"} /\ TagFreeSingleRank) =>
        LET decoded == parse_file_titles(WrittenFile.content)
        IN  \A i \in 1..Len(results) : \A j \in 1..Len(results[i].v) :
                LET alias == AliasOf(results[i].k)
                    title == results[i].v[j].k
                IN  /\ DictHas(decoded, alias)
                    /\ DictHas(DictGet(decoded, alias), title)
                    /\ DictGet(DictGet(decoded, alias), title) = results[i].v[j].v

(***************************************************************************)
(* C2: every (source, title) pair is in the title list of at most one      *)
(* statistic, the one of the first group in configured order whose         *)
(* predicate holds for the title; the count and the title list of every    *)
(* other statistic are untouched by it.                                    *)
(***************************************************************************)
C2_FirstGroupWins ==
    pc = "counted" =>
        /\ \A n, m \in 1..Len(stats) : stats[n].word = stats[m].word => n = m
        /\ \A n \in 1..Len(stats) :
              /\ Attributed(n) = {<<AliasOf(pr[1]), pr[2]>> : pr \in PairsOfKey(stats[n].word)}
              /\ Len(stats[n].titles) = Cardinality(PairsOfKey(stats[n].word))
              /\ stats[n].count = Cardinality(PairsOfKey(stats[n].word))

\* a counted title for which two groups with different keys hold
C2_Witness ==
    /\ pc = "counted"
    /\ \E pr \in ResultPairs :
          /\ ~HasFilterWord(pr[2])
          /\ \E g, h \in HoldingGroups(pr[2]) :
                word_groups[g].group_key # word_groups[h].group_key

(***************************************************************************)
(* C3: for a title with no filter word, _matches_word_groups is true       *)
(* exactly when some configured group has (no required word or every       *)
(* required word in the title) and (no normal word or some normal word in  *)
(* the title), letter case ignored.                                        *)
(***************************************************************************)
C3_MatchPredicate ==
    pc \in {"count", "counted"} =>
        \A pr \in ResultPairs :
            ~HasFilterWord(pr[2]) =>
                (matches_word_groups(pr[2], word_groups, filter_words)
                    <=> HoldingGroups(pr[2]) # {})

\* a title that holds one of two required words of a group, so the group does
\* not hold, and a title matched through a group with required and normal words
C3_Witness ==
    /\ pc = "counted"
    /\ \E pr \in ResultPairs : \E g \in 1..Len(word_groups) :
          /\ ~HasFilterWord(pr[2])
          /\ Len(word_groups[g].required) = 2
          /\ ~GroupHolds(pr[2], word_groups[g])
          /\ \E k \in 1..2 : HasWord(pr[2], word_groups[g].required[k])
    /\ \E pr \in ResultPairs : \E g \in HoldingGroups(pr[2]) :
          /\ ~HasFilterWord(pr[2])
          /\ word_groups[g].required # <<>>
          /\ word_groups[g].normal # <<>>

(***************************************************************************)
(* C4: a title that holds a filter word is in no statistic's title list    *)
(* and adds to no count, whatever groups hold for it; total_titles still   *)
(* counts it.                                                              *)
(***************************************************************************)
C4_FilterVeto ==
    pc = "counted" =>
        /\ total_titles = Cardinality(ResultPairs)
        /\ \A pr \in ResultPairs :
              HasFilterWord(pr[2]) =>
                  \A n \in 1..Len(stats) :
                      /\ \A p \in 1..Len(stats[n].titles) : stats[n].titles[p].title # pr[2]
                      /\ stats[n].count <=
                             Cardinality({q \in ResultPairs : ~HasFilterWord(q[2])})

\* a title with a filter word for which a group holds
C4_Witness ==
    /\ pc = "counted"
    /\ \E pr \in ResultPairs : HasFilterWord(pr[2]) /\ HoldingGroups(pr[2]) # {}

(***************************************************************************)
(* C7: in the first run of a day (one snapshot file) every title of the    *)
(* snapshot is new, so every annotated entry of the statistics has         *)
(* is_new = TRUE, for a source whose alias is its id and for any other.    *)
(* Fails: with one file the detector returns the decoded file, keyed by    *)
(* alias, and is_new looks the source id up in it.                         *)
(***************************************************************************)
C7_FirstRunAllNew ==
    (pc = "counted" /\ Cardinality(dir) = 1) =>
        \A n \in 1..Len(stats) : \A p \in 1..Len(stats[n].titles) :
            stats[n].titles[p].is_new

(***************************************************************************)
(* C8: the statistics hold one entry per configured group, and a group no  *)
(* title is attributed to has an entry with count 0 and no titles.         *)
(* Fails for two groups of the same group_key (see C11): they share one    *)
(* entry of word_stats.                                                    *)
(***************************************************************************)
C8_OneStatPerGroup ==
    pc = "counted" =>
        /\ Len(stats) = Len(word_groups)
        /\ \A g \in 1..Len(word_groups) :
              (\A pr \in ResultPairs : FirstHoldingGroup(pr[2]) # g) =>
                  \E n \in 1..Len(stats) :
                      /\ stats[n].word = word_groups[g].group_key
                      /\ stats[n].count = 0
                      /\ stats[n].titles = <<>>

(***************************************************************************)
(* C9: the statistics are in order of non-increasing count, and entries of *)
(* equal count are in the configuration order of their groups.             *)
(***************************************************************************)
\* the place in the configuration of the first group with the key word
KeyIndex(word) ==
    CHOOSE g \in 1..Len(word_groups) :
        /\ word_groups[g].group_key = word
        /\ \A h \in 1..(g - 1) : word_groups[h].group_key # word

C9_SortedStable ==
    pc = "counted" =>
        \A n, m \in 1..Len(stats) :
            n < m =>
                /\ stats[n].count >= stats[m].count
                /\ stats[n].count = stats[m].count =>
                       KeyIndex(stats[n].word) < KeyIndex(stats[m].word)

\* configured counts [0, k, k] come out as [k, k, 0], the two k in configured order
C9_Witness ==
    /\ pc = "counted"
    /\ Len(stats) = 3
    /\ stats[1].count = stats[2].count
    /\ stats[2].count > stats[3].count
    /\ KeyIndex(stats[3].word) = 1
    /\ KeyIndex(stats[1].word) = 2

(***************************************************************************)
(* C10: total_titles is the number of (source, title) pairs of the input,  *)
(* filtered and unmatched ones included; each percentage is                *)
(* count / total_titles * 100 rounded to two decimals (here in hundredths: *)
(* the nearest integer to count * 10000 / total_titles), and 0 when        *)
(* total_titles is 0.                                                      *)
(***************************************************************************)
Abs(x) == IF x < 0 THEN -x ELSE x

C10_Percentage ==
    pc = "counted" =>
        /\ total_titles = Cardinality(ResultPairs)
        /\ \A n \in 1..Len(stats) :
              IF total_titles = 0
              THEN stats[n].percentage = 0
              ELSE 2 * Abs(stats[n].percentage * total_titles - stats[n].count * 10000)
                       <= total_titles

\* count = 3 of total = 12 gives 25.0, with filtered and unmatched titles in the total
C10_Witness ==
    /\ pc = "counted"
    /\ total_titles = 12
    /\ \E pr \in ResultPairs : HasFilterWord(pr[2])
    /\ \E n \in 1..Len(stats) : stats[n].count = 3 /\ stats[n].percentage = 2500

(***************************************************************************)
(* C5: one step of the fold of read_all_today_titles.  For every title of  *)
(* the snapshot folded in: at its first sighting count = 1,                *)
(* first_time = last_time = the snapshot's label and the ranks are the     *)
(* snapshot's; at a later sighting last_time becomes the label, count      *)
(* grows by exactly 1, first_time stays, and the ranks are the old ranks   *)
(* followed by the snapshot's ranks not yet present, none twice.           *)
(***************************************************************************)
\* the file the read loop is about to fold in
CurrentFile == SortedFiles(dir)[read_pos]

Known(st, name, title) ==
    DictHas(st.title_info, name) /\ DictHas(DictGet(st.title_info, name), title)

InfoOf(st, name, title) == DictGet(DictGet(st.title_info, name), title)

Range(seq) == {seq[i] : i \in 1..Len(seq)}

IsPrefix(a, b) == Len(a) <= Len(b) /\ SubSeq(b, 1, Len(a)) = a

FoldStep ==
    LET snapshot == parse_file_titles(CurrentFile.content)
        label == CurrentFile.name
    IN  \A i \in 1..Len(snapshot) : \A j \in 1..Len(snapshot[i].v) :
            LET name == snapshot[i].k
                title == snapshot[i].v[j].k
                data == snapshot[i].v[j].v
                before == InfoOf(agg, name, title)
                after == InfoOf(agg', name, title)
            IN  /\ Known(agg', name, title)
                /\ IF ~Known(agg, name, title)
                   THEN /\ after.count = 1
                        /\ after.first_time = label
                        /\ after.last_time = label
                        /\ after.ranks = data.ranks
                   ELSE /\ after.count = before.count + 1
                        /\ after.first_time = before.first_time
                        /\ after.last_time = label
                        /\ IsPrefix(before.ranks, after.ranks)
                        /\ Range(after.ranks) = Range(before.ranks) \cup Range(data.ranks)
                        /\ Len(after.ranks) = Cardinality(Range(after.ranks))

C5_FoldStep == [][(pc = "read" /\ read_pos' = read_pos + 1) => FoldStep]_vars

\* three sightings at ranks r, r, r' give ranks <<r, r'>> and count 3
C5_Witness ==
    /\ pc = "read"
    /\ \E i \in 1..Len(agg.title_info) : \E j \in 1..Len(agg.title_info[i].v) :
          LET info == agg.title_info[i].v[j].v
          IN  /\ info.count = 3
              /\ Len(info.ranks) = 2
              /\ info.first_time # info.last_time

(***************************************************************************)
(* C6: with two or more snapshot files, the titles reported new for a      *)
(* source are exactly the titles of its section in the latest file that    *)
(* are in none of the earlier files' sections of the same source; the      *)
(* sections of other sources do not count.  Checked where run calls the    *)
(* detector and where generate_daily_summary calls it.                     *)
(***************************************************************************)
\* the titles of the section named name in a file
TitlesIn(file, name) ==
    LET decoded == parse_file_titles(file.content)
    IN  IF DictHas(decoded, name) THEN DictKeys(DictGet(decoded, name)) ELSE {}

LatestFile == SortedFiles(dir)[Cardinality(dir)]

EarlierFiles == dir \ {LatestFile}

ExpectedNew(name) ==
    {t \in TitlesIn(LatestFile, name) : \A f \in EarlierFiles : t \notin TitlesIn(f, name)}

Reported(source_id) ==
    IF DictHas(new_titles, source_id)
    THEN DictKeys(DictGet(new_titles, source_id))
    ELSE {}

DetectorExact(aliases) ==
    /\ \A i \in 1..Len(aliases) : Reported(aliases[i].k) = ExpectedNew(aliases[i].v)
    /\ DictKeys(new_titles) \subseteq DictKeys(aliases)

C6_NewTitles ==
    Cardinality(dir) >= 2 =>
        /\ pc = "summary" => DetectorExact(id_to_alias)
        /\ (pc = "idle" /\ runs > 0) => DetectorExact(daily.id_to_alias)

\* a title reported new for one source though an earlier file has it under
\* another source, and a title of the latest file that is not new
C6_Witness ==
    /\ Cardinality(dir) >= 2
    /\ pc = "summary"
    /\ \E i, k \in 1..Len(id_to_alias) :
          /\ i # k
          /\ \E t \in Reported(id_to_alias[i].k) :
                \E f \in EarlierFiles : t \in TitlesIn(f, id_to_alias[k].v)
    /\ \E i \in 1..Len(id_to_alias) :
          TitlesIn(LatestFile, id_to_alias[i].v) \ Reported(id_to_alias[i].k) # {}

(***************************************************************************)
(* C11: load_frequency_words never returns two groups with the same        *)
(* group_key, so count_word_frequency gives every returned group a         *)
(* statistic of its own.                                                   *)
(* Fails: the loader appends every group with a required or a normal word  *)
(* and compares no keys; the groups "a" and "+a" both get the key "a" and  *)
(* share one statistic.                                                    *)
(***************************************************************************)
C11_UniqueGroupKeys ==
    /\ pc \in {"count", "counted"} =>
          \A i, j \in 1..Len(word_groups) :
              word_groups[i].group_key = word_groups[j].group_key => i = j
    /\ pc = "counted" => Len(stats) = Len(word_groups)

(***************************************************************************)
(* C13: after crawl_websites every requested id is in exactly one of       *)
(* results and failed_ids: never in both, never in neither.                *)
(* Fails: results[id_value] = {} is assigned before the loop over the      *)
(* items, so an item that raises leaves the id in results and the handler  *)
(* appends it to failed_ids as well.                                       *)
(***************************************************************************)
C13_OneOutcomePerId ==
    pc \notin {"idle", "crawl"} =>
        \A i \in 1..Len(ids) :
            DictHas(results, ids[i].id)
                # (\E k \in 1..Len(failed_ids) : failed_ids[k] = ids[i].id)

(***************************************************************************)
(* C17: for each source of the crawl, in order, the written text has the   *)
(* line of the display alias, then one line per title, then a blank line;  *)
(* the line of a title starts with its minimum rank, ". " and the title,   *)
(* and stands after the lines of exactly the titles of smaller minimum     *)
(* rank and of the titles of equal minimum rank discovered earlier.        *)
(***************************************************************************)
MinRank(ranks) == CHOOSE r \in Range(ranks) : \A q \in Range(ranks) : r <= q

\* the place among the lines of a source of its j-th discovered title
PlaceOf(title_data, j) ==
    1 + Cardinality({k \in 1..Len(title_data) :
                        \/ MinRank(title_data[k].v.ranks) < MinRank(title_data[j].v.ranks)
                        \/ /\ MinRank(title_data[k].v.ranks) = MinRank(title_data[j].v.ranks)
                           /\ k < j})

RECURSIVE LinesBefore(_)
\* the lines of the text before the section of the i-th source
LinesBefore(i) == IF i = 1 THEN 0 ELSE LinesBefore(i - 1) + Len(results[i - 1].v) + 2

C17_EncodeOrder ==
    pc \in {"detect", "done"} =>
        LET lines == Split(WrittenFile.content, LF)
        IN  \A i \in 1..Len(results) :
                /\ lines[LinesBefore(i) + 1] = AliasOf(results[i].k)
                /\ lines[LinesBefore(i) + Len(results[i].v) + 2] = <<>>
                /\ \A j \in 1..Len(results[i].v) :
                      IsPrefix(IntToStr(MinRank(results[i].v[j].v.ranks))
                                   \o RANK_SEP \o results[i].v[j].k,
                               lines[LinesBefore(i) + 1 + PlaceOf(results[i].v, j)])

\* a source with a title seen at ranks 1 and 3 and another seen at rank 2
C17_Witness ==
    /\ pc \in {"detect", "done"}
    /\ \E i \in 1..Len(results) : \E j, k \in 1..Len(results[i].v) :
          /\ results[i].v[j].v.ranks = <<1, 3>>
          /\ results[i].v[k].v.ranks = <<2>>
          /\ PlaceOf(results[i].v, k) = 2

(***************************************************************************)
(* C14: every run of a day writes one new snapshot file and replaces none, *)
(* so the day directory holds one file per run that has saved.             *)
(* Fails: the file name is the time of day to the minute and the file is   *)
(* opened for writing, so a run in the minute of an earlier run replaces   *)
(* that run's file.                                                        *)
(***************************************************************************)
C14_OneNewFilePerRun ==
    Cardinality(dir) = IF pc \in {"crawl", "save"} THEN runs - 1 ELSE runs

(***************************************************************************)
(* C16: a line whose decoding raises is skipped and changes nothing else:  *)
(* both decoders give, for a file, the title records they give for the     *)
(* file without its raising lines.  (The only statement of the try block   *)
(* that can raise is int(rank_str), on a digit character int() rejects.)   *)
(***************************************************************************)
\* the one file of the decoder specification
OnlyFile == CHOOSE f \in dir : TRUE

\* the text before the first ". " of the line is digit characters, one of
\* them a character int() rejects
LineRaises(line) ==
    LET text == Strip(line)
        i == Find(text, RANK_SEP)
    IN  /\ i > 1
        /\ \A k \in 1..(i - 1) : IsDigitChar(text[k])
        /\ \E k \in 1..(i - 1) : text[k] = SuperscriptTwo

\* a section without the raising lines among the lines after its first
SectionWithoutRaising(section) ==
    LET lines == Split(section, LF)
        kept == {k \in 1..Len(lines) : k = 1 \/ ~LineRaises(lines[k])}
        nth(n) == CHOOSE k \in kept : Cardinality({h \in kept : h < k}) = n - 1
    IN  Join([n \in 1..Cardinality(kept) |-> lines[nth(n)]], LF)

TextWithoutRaising(content) ==
    LET sections == Split(content, <<"\n", "\n">>)
    IN  Join([n \in 1..Len(sections) |-> SectionWithoutRaising(sections[n])],
             <<"\n", "\n">>)

\* the title records of a decoded file
TitleRecords(decoded) ==
    UNION {{<<decoded[i].k, decoded[i].v[j].k, decoded[i].v[j].v>> :
               j \in 1..Len(decoded[i].v)} : i \in 1..Len(decoded)}

C16_RaisingLineSkipped ==
    /\ pc = "summary" =>
          TitleRecords(new_titles)
              = TitleRecords(parse_file_titles(TextWithoutRaising(OnlyFile.content)))
    /\ (pc = "read" /\ read_pos = 2) =>
          TitleRecords(agg.all_results)
              = TitleRecords(ReadFile([name |-> OnlyFile.name,
                                       content |-> TextWithoutRaising(OnlyFile.content)],
                                      EmptyAggregate).all_results)

\* a section with a decoded title and, after it, a raising line
C16_Witness ==
    /\ pc = "summary"
    /\ \E lines \in SeqsUpTo(SnapshotLines, MaxLines) :
          /\ Len(lines) = 2
          /\ ~LineRaises(lines[1])
          /\ LineRaises(lines[2])
          /\ IsPrefix(Join(<<<<"B", " ", "s">>>> \o lines, LF), OnlyFile.content)
    /\ DictHas(new_titles, <<"B", " ", "s">>)
    /\ DictGet(new_titles, <<"B", " ", "s">>) # EmptyDict

(***************************************************************************)
(* C18: a section of a file is skipped exactly when its first line holds   *)
(* the failure marker or it has fewer than two non-empty lines; any other  *)
(* section is decoded under its first line as display alias.               *)
(* Fails: both decoders look for the marker in the whole section, so a     *)
(* source section with a title that holds the text of the marker is        *)
(* dropped with all its titles.                                            *)
(***************************************************************************)
\* the section is one the claim has skipped
SkippedByRule(section) ==
    LET lines == Split(section, LF)
    IN  \/ Contains(lines[1], FAILED_MARKER)
        \/ Cardinality({k \in 1..Len(lines) : Strip(lines[k]) # <<>>}) < 2

\* no other section of the file has the first line of the n-th
AloneOfItsName(sections, n) ==
    \A m \in 1..Len(sections) :
        m # n => Strip(Split(sections[m], LF)[1]) # Strip(Split(sections[n], LF)[1])

C18_SectionSelection ==
    LET sections == Split(OnlyFile.content, <<"\n", "\n">>)
    IN  /\ pc = "summary" =>
              \A n \in 1..Len(sections) :
                  AloneOfItsName(sections, n) =>
                      (SkippedByRule(sections[n])
                          <=> ~DictHas(new_titles, Strip(Split(sections[n], LF)[1])))
        /\ (pc = "read" /\ read_pos = 2) =>
              \A n \in 1..Len(sections) :
                  AloneOfItsName(sections, n) =>
                      (SkippedByRule(sections[n])
                          <=> ~DictHas(agg.all_results, Strip(Split(sections[n], LF)[1])))

(***************************************************************************)
(* C19: in a decoded section, a line whose text before its first ". " is   *)
(* digits gives the title after that ". " with the one rank the digits     *)
(* spell; any other line gives its whole text as the title with the rank   *)
(* list [1]; in both cases less the URL and MOBILE tags at the end.  Every *)
(* decoded title record has exactly one rank.                              *)
(***************************************************************************)
\* the text without what stands from its first URL or MOBILE tag on
TagsCut(text) ==
    LET cuts == {i \in 1..Len(text) : StartsAt(text, URL_TAG, i) \/ StartsAt(text, MOBILE_TAG, i)}
    IN  IF cuts = {}
        THEN text
        ELSE SubSeq(text, 1, (CHOOSE i \in cuts : \A k \in cuts : i <= k) - 1)

\* the number a string of the digits 0..9 spells
RECURSIVE Spelled(_)
Spelled(digits) ==
    IF digits = <<>>
    THEN 0
    ELSE 10 * Spelled(SubSeq(digits, 1, Len(digits) - 1))
             + (CHOOSE d \in 0..9 : Digits[d + 1] = digits[Len(digits)])

\* the text before the first ". " of the line is one or more digits
HasRankPrefix(text) ==
    /\ Find(text, RANK_SEP) > 1
    /\ \A k \in 1..(Find(text, RANK_SEP) - 1) : IsDigitChar(text[k])

ExpectedTitle(text) ==
    IF HasRankPrefix(text)
    THEN Strip(TagsCut(SubSeq(text, Find(text, RANK_SEP) + 2, Len(text))))
    ELSE Strip(TagsCut(text))

ExpectedRanks(text) ==
    IF HasRankPrefix(text)
    THEN <<Spelled(SubSeq(text, 1, Find(text, RANK_SEP) - 1))>>
    ELSE <<1>>

\* the lines after the first of a section that a decoder has to store
TitleLinesOf(section) ==
    LET lines == Split(Strip(section), LF)
    IN  {Strip(lines[k]) : k \in 2..Len(lines)} \ ({<<>>} \cup {t \in {Strip(lines[k]) : k \in 2..Len(lines)} : LineRaises(t)})

\* the sections of the only file that the decoders decode under this name
SectionsNamed(name) ==
    LET sections == Split(OnlyFile.content, <<"\n", "\n">>)
    IN  {n \in 1..Len(sections) :
            ~SectionSkipped(sections[n]) /\ SectionName(sections[n]) = name}

\* the rule, for the sources with one section in the file (the sections of
\* one name are merged or replaced, which is not the decoding of a line)
RankPrefixRule(decoded) ==
    /\ \A i \in 1..Len(decoded) : \A j \in 1..Len(decoded[i].v) :
          Cardinality(SectionsNamed(decoded[i].k)) = 1
              => Len(decoded[i].v[j].v.ranks) = 1
    /\ LET sections == Split(OnlyFile.content, <<"\n", "\n">>)
       IN  \A n \in 1..Len(sections) :
               LET name == Strip(Split(Strip(sections[n]), LF)[1])
               IN  (DictHas(decoded, name) /\ SectionsNamed(name) = {n}) =>
                       \A text \in TitleLinesOf(sections[n]) :
                           /\ DictHas(DictGet(decoded, name), ExpectedTitle(text))
                           /\ DictGet(DictGet(decoded, name), ExpectedTitle(text)).ranks
                                  = ExpectedRanks(text)

C19_RankPrefix ==
    /\ pc = "summary" => RankPrefixRule(new_titles)
    /\ (pc = "read" /\ read_pos = 2) => RankPrefixRule(agg.all_results)

\* a decoded section with a two-digit rank and a line whose prefix is no
\* number
C19_Witness ==
    /\ pc = "read"
    /\ read_pos = 2
    /\ \E i \in 1..Len(agg.all_results) :
          /\ DictHas(agg.all_results[i].v, <<"b">>)
          /\ DictGet(agg.all_results[i].v, <<"b">>).ranks = <<12>>
          /\ DictHas(agg.all_results[i].v, <<"x", ".", " ", "c">>)
          /\ DictGet(agg.all_results[i].v, <<"x", ".", " ", "c">>).ranks = <<1>>

(***************************************************************************)
(* C12: a display alias of the day's files that no id of the id-to-alias   *)
(* table maps to is still present in what read_all_today_titles returns:   *)
(* every alias it read has an entry of its own in the id-keyed result.     *)
(* Fails: the conversion loop adds an entry only when some id maps to the  *)
(* alias; the id of an alias is alias.lower().replace(" ", "-"), so of two *)
(* aliases with the same id the earlier one loses its id and is left out   *)
(* of both id-keyed maps without a trace.                                  *)
(***************************************************************************)
C12_OrphanSurfaced ==
    pc \in {"detect_daily", "no_report"} =>
        \A i \in 1..Len(agg.all_results) :
            \E k \in 1..Len(daily.id_results) :
                /\ DictGetOr(daily.id_to_alias, daily.id_results[k].k, <<>>)
                       = agg.all_results[i].k
                /\ DictHas(daily.id_title_info, daily.id_results[k].k)

(***************************************************************************)
(* C15: with no snapshot file in the day directory (or no directory)       *)
(* detect_latest_new_titles returns an empty mapping, read_all_today_titles *)
(* returns three empty mappings, and generate_daily_summary returns no     *)
(* report, after which the run goes on to its end.                         *)
(***************************************************************************)
C15_EmptyDirectory ==
    [][/\ (pc = "detect" /\ pc' # "detect" /\ dir = {}) => new_titles' = EmptyDict
       /\ (pc = "read" /\ pc' # "read" /\ dir = {}) =>
              (daily' = EmptyDaily /\ pc' = "no_report")
       /\ (pc = "no_report" /\ pc' # "no_report") => pc' = "idle"]_vars

\* a run whose reads all found the day directory empty and that has ended
C15_Witness ==
    /\ pc = "idle"
    /\ runs >= 1
    /\ dir = {}
    /\ new_titles = EmptyDict
    /\ daily = EmptyDaily
    /\ results # EmptyDict

(***************************************************************************)
(* C20: the rank list of an annotated entry is the rank list of the        *)
(* aggregated info of its (source, title) when there is such info and its  *)
(* list is not empty, else the rank list of the snapshot; when that list   *)
(* is empty it is [99].  No annotated entry has an empty rank list.        *)
(***************************************************************************)
\* the id of the source that an entry's alias stands for
EntrySource(entry) ==
    CHOOSE source_id \in DictKeys(results) : AliasOf(source_id) = entry.source_alias

ExpectedEntryRanks(entry) ==
    LET source_id == EntrySource(entry)
        raw == DictGet(DictGet(results, source_id), entry.title).ranks
        aggregated ==
            IF DictHas(title_info, source_id)
                   /\ DictHas(DictGet(title_info, source_id), entry.title)
            THEN DictGet(DictGet(title_info, source_id), entry.title).ranks
            ELSE <<>>
    IN  IF aggregated # <<>>
        THEN aggregated
        ELSE IF raw # <<>> THEN raw ELSE <<99>>

C20_EntryRanks ==
    pc = "counted" =>
        \A n \in 1..Len(stats) : \A p \in 1..Len(stats[n].titles) :
            /\ stats[n].titles[p].ranks = ExpectedEntryRanks(stats[n].titles[p])
            /\ stats[n].titles[p].ranks # <<>>

\* an entry that takes the aggregated list over a different one of the
\* snapshot, beside an entry without info and without ranks
C20_Witness ==
    /\ pc = "counted"
    /\ \E n \in 1..Len(stats) : \E p, q \in 1..Len(stats[n].titles) :
          /\ stats[n].titles[p].ranks = <<2, 5>>
          /\ DictGet(DictGet(results, <<"t", "b">>), stats[n].titles[p].title).ranks = <<1, 3>>
          /\ stats[n].titles[q].ranks = <<RANK_SENTINEL>>

(***************************************************************************)
(* C21: the aggregate the read loop holds after the files [A, B] is the    *)
(* aggregate after [A] with B folded in; folding in once more the file     *)
(* that was folded in last leaves every title's ranks, url, mobileUrl and  *)
(* first_time as they are and adds exactly 1 to the count of each title of *)
(* that file (and nothing to the count of any other title).                *)
(***************************************************************************)
RECURSIVE Aggregated(_)
\* the aggregate of a list of files, last file folded last
Aggregated(files) ==
    IF files = <<>>
    THEN EmptyAggregate
    ELSE ReadFile(files[Len(files)], Aggregated(SubSeq(files, 1, Len(files) - 1)))

FoldedFiles == SubSeq(SortedFiles(dir), 1, read_pos - 1)

\* what a second fold of file does to the aggregate st
RefoldOnlyCounts(file, st) ==
    LET again == ReadFile(file, st)
        decoded == parse_file_titles(file.content)
    IN  /\ again.all_results = st.all_results
        /\ again.id_to_alias = st.id_to_alias
        /\ DictKeys(again.title_info) = DictKeys(st.title_info)
        /\ \A i \in 1..Len(st.title_info) : \A j \in 1..Len(st.title_info[i].v) :
              LET name == st.title_info[i].k
                  title == st.title_info[i].v[j].k
                  before == st.title_info[i].v[j].v
                  after == InfoOf(again, name, title)
                  in_file == DictHas(decoded, name) /\ DictHas(DictGet(decoded, name), title)
              IN  /\ Known(again, name, title)
                  /\ after.ranks = before.ranks
                  /\ after.url = before.url
                  /\ after.mobileUrl = before.mobileUrl
                  /\ after.first_time = before.first_time
                  /\ after.count = before.count + (IF in_file THEN 1 ELSE 0)

C21_IncrementalFold ==
    (pc = "read" /\ read_pos > 1) =>
        /\ agg = Aggregated(FoldedFiles)
        /\ RefoldOnlyCounts(FoldedFiles[read_pos - 1], agg)

\* two files are folded in, and a title first seen in the first is in the
\* second as well, at another rank
C21_Witness ==
    /\ pc = "read"
    /\ read_pos = 3
    /\ \E i \in 1..Len(agg.title_info) : \E j \in 1..Len(agg.title_info[i].v) :
          LET info == agg.title_info[i].v[j].v
          IN  /\ info.count = 2
              /\ Len(info.ranks) = 2
              /\ agg.title_info[i].v[j].k \in TitlesIn(FoldedFiles[2], agg.title_info[i].k)

(***************************************************************************)
(* C22: the files of the day are folded in ascending order of their time   *)
(* label.  In every state of the fold and in what read_all_today_titles    *)
(* returns, every aggregated title has first_time <= last_time, first_time *)
(* is the smallest label of the folded files that hold the title for the   *)
(* source and last_time the largest; a fold step never changes the         *)
(* first_time of a title already known.                                    *)
(***************************************************************************)
StrLessEq(a, b) == a = b \/ StrLess(a, b)

\* the labels of the folded files that hold the title for the source
SightingLabels(decoded, name, title) ==
    {decoded[k].label : k \in {n \in 1..Len(decoded) :
        DictHas(decoded[n].titles, name) /\ DictHas(DictGet(decoded[n].titles, name), title)}}

FirstLastTimes ==
    LET decoded == [k \in 1..Len(FoldedFiles) |->
                       [label |-> FoldedFiles[k].name,
                        titles |-> parse_file_titles(FoldedFiles[k].content)]]
    IN  /\ \A k \in 1..(Len(decoded) - 1) : StrLess(decoded[k].label, decoded[k + 1].label)
        /\ \A i \in 1..Len(agg.title_info) : \A j \in 1..Len(agg.title_info[i].v) :
              LET info == agg.title_info[i].v[j].v
                  labels == SightingLabels(decoded, agg.title_info[i].k,
                                           agg.title_info[i].v[j].k)
              IN  /\ StrLessEq(info.first_time, info.last_time)
                  /\ info.first_time \in labels
                  /\ info.last_time \in labels
                  /\ \A label \in labels :
                        StrLessEq(info.first_time, label) /\ StrLessEq(label, info.last_time)

\* id_title_info holds the aggregated info of the alias of each id
ReturnedInfo ==
    \A i \in 1..Len(daily.id_title_info) :
        daily.id_title_info[i].v
            = DictGet(agg.title_info, DictGet(daily.id_to_alias, daily.id_title_info[i].k))

FirstTimeKept ==
    \A i \in 1..Len(agg.title_info) : \A j \in 1..Len(agg.title_info[i].v) :
        LET name == agg.title_info[i].k
            title == agg.title_info[i].v[j].k
        IN  /\ Known(agg', name, title)
            /\ InfoOf(agg', name, title).first_time = agg.title_info[i].v[j].v.first_time

C22_FirstLastTime ==
    /\ [](FirstLastTimes /\ ReturnedInfo)
    /\ [][(pc = "read" /\ read_pos' = read_pos + 1) => FirstTimeKept]_vars

\* three files are folded: a title is in the first and the third only, and
\* another was first seen in the second
C22_Witness ==
    /\ pc = "read"
    /\ read_pos = 4
    /\ \E i \in 1..Len(agg.title_info) : \E j, k \in 1..Len(agg.title_info[i].v) :
          /\ agg.title_info[i].v[j].v.first_time = FoldedFiles[1].name
          /\ agg.title_info[i].v[j].v.last_time = FoldedFiles[3].name
          /\ agg.title_info[i].v[j].v.count = 2
          /\ agg.title_info[i].v[k].v.first_time = FoldedFiles[2].name

(***************************************************************************)
(* C23: load_frequency_words returns no group whose required list and      *)
(* normal list are both empty: a group of lines with filter lines only     *)
(* adds its filter words and no group.  For every content of the pool the  *)
(* groups returned are as many as the blocks with a line that is no filter *)
(* line, and the filter words as many as the filter lines.                 *)
(***************************************************************************)
\* the stripped non-blank lines of a text
WordLines(text) == StrippedNonBlank(Split(text, LF))

IsFilterLine(line) == Head(line) = "!"

LoadedAsWritten(content) ==
    LET blocks == StrippedNonBlank(Split(content, <<"\n", "\n">>))
        loaded == load_frequency_words(content)
    IN  /\ Len(loaded.word_groups)
              = Cardinality({k \in 1..Len(blocks) :
                    \E i \in 1..Len(WordLines(blocks[k])) :
                        ~IsFilterLine(WordLines(blocks[k])[i])})
        /\ Len(loaded.filter_words)
              = Cardinality({i \in 1..Len(WordLines(content)) :
                    IsFilterLine(WordLines(content)[i])})
        /\ \A g \in 1..Len(loaded.word_groups) :
              loaded.word_groups[g].required # <<>> \/ loaded.word_groups[g].normal # <<>>

EveryFileLoadedAsWritten == \A content \in FrequencyFiles : LoadedAsWritten(content)

C23_NoDegenerateGroup ==
    pc \in {"count", "counted"} =>
        /\ \A g \in 1..Len(word_groups) :
              word_groups[g].required # <<>> \/ word_groups[g].normal # <<>>
        /\ EveryFileLoadedAsWritten

\* a file with a block of filter lines only beside a block with one group:
\* two filter words, one group
C23_Witness ==
    /\ pc = "count"
    /\ Len(word_groups) = 1
    /\ Len(filter_words) = 2

(***************************************************************************)
(* C24: in the fold, a title's url (and its mobileUrl) that is not empty   *)
(* is changed by no later file; while it is empty, a file that holds the   *)
(* title with a value that is not empty sets it.  After every step the     *)
(* merged results and the aggregated info hold the same url and mobileUrl. *)
(***************************************************************************)
\* the value after a step, from the value before and the value of the file
\* ("" when the file's section does not hold the title)
FirstNonEmpty(before, sighted) == IF before # <<>> THEN before ELSE sighted

UrlsAgree ==
    /\ DictKeys(agg.all_results) = DictKeys(agg.title_info)
    /\ \A i \in 1..Len(agg.all_results) : \A j \in 1..Len(agg.all_results[i].v) :
          LET name == agg.all_results[i].k
              title == agg.all_results[i].v[j].k
          IN  /\ Known(agg, name, title)
              /\ InfoOf(agg, name, title).url = agg.all_results[i].v[j].v.url
              /\ InfoOf(agg, name, title).mobileUrl = agg.all_results[i].v[j].v.mobileUrl

UrlStep ==
    LET snapshot == parse_file_titles(CurrentFile.content)
    IN  \A i \in 1..Len(agg.title_info) : \A j \in 1..Len(agg.title_info[i].v) :
            LET name == agg.title_info[i].k
                title == agg.title_info[i].v[j].k
                before == agg.title_info[i].v[j].v
                sighted == DictHas(snapshot, name) /\ DictHas(DictGet(snapshot, name), title)
                data == DictGet(DictGet(snapshot, name), title)
            IN  /\ Known(agg', name, title)
                /\ InfoOf(agg', name, title).url
                       = FirstNonEmpty(before.url, IF sighted THEN data.url ELSE <<>>)
                /\ InfoOf(agg', name, title).mobileUrl
                       = FirstNonEmpty(before.mobileUrl,
                                       IF sighted THEN data.mobileUrl ELSE <<>>)

C24_FirstUrlWins ==
    /\ []UrlsAgree
    /\ [][(pc = "read" /\ read_pos' = read_pos + 1) => UrlStep]_vars

\* three files: the title without url, then with one, then with another;
\* the second file's url is kept
C24_Witness ==
    /\ pc = "read"
    /\ read_pos = 4
    /\ \E i \in 1..Len(agg.title_info) : \E j \in 1..Len(agg.title_info[i].v) :
          LET name == agg.title_info[i].k
              title == agg.title_info[i].v[j].k
              first == parse_file_titles(FoldedFiles[1].content)
              second == parse_file_titles(FoldedFiles[2].content)
              third == parse_file_titles(FoldedFiles[3].content)
          IN  /\ DictHas(first, name) /\ DictHas(DictGet(first, name), title)
              /\ DictGet(DictGet(first, name), title).url = <<>>
              /\ DictHas(second, name) /\ DictHas(DictGet(second, name), title)
              /\ DictGet(DictGet(second, name), title).url = <<"u">>
              /\ DictHas(third, name) /\ DictHas(DictGet(third, name), title)
              /\ DictGet(DictGet(third, name), title).url = <<"v">>
              /\ agg.title_info[i].v[j].v.url = <<"u">>
              /\ agg.title_info[i].v[j].v.mobileUrl = <<"m">>

(***************************************************************************)
(* C25: in what count_word_frequency returns, the count of every statistic *)
(* is the length of its title list, and the counts add up to the number of *)
(* (source, title) pairs of the input that hold no filter word and satisfy *)
(* the match predicate of at least one group, which is at most             *)
(* total_titles.                                                           *)
(***************************************************************************)
RECURSIVE SumCounts(_)
\* the counts of the first n statistics added up
SumCounts(n) == IF n = 0 THEN 0 ELSE SumCounts(n - 1) + stats[n].count

MatchedPairs ==
    {pr \in ResultPairs : ~HasFilterWord(pr[2]) /\ HoldingGroups(pr[2]) # {}}

C25_CountsAddUp ==
    pc = "counted" =>
        /\ \A n \in 1..Len(stats) : stats[n].count = Len(stats[n].titles)
        /\ SumCounts(Len(stats)) = Cardinality(MatchedPairs)
        /\ SumCounts(Len(stats)) <= total_titles

\* a statistic with titles of two sources, beside a pair with a filter word
\* and a pair that no group matches
C25_Witness ==
    /\ pc = "counted"
    /\ \E n \in 1..Len(stats) : \E p, q \in 1..Len(stats[n].titles) :
          stats[n].titles[p].source_alias # stats[n].titles[q].source_alias
    /\ \E pr \in ResultPairs : HasFilterWord(pr[2])
    /\ \E pr \in ResultPairs : ~HasFilterWord(pr[2]) /\ HoldingGroups(pr[2]) = {}
    /\ SumCounts(Len(stats)) >= 3
    /\ SumCounts(Len(stats)) < total_titles

(***************************************************************************)
(* C26: when CONFIG["FEISHU_ENABLE"] is False, no request is posted to the *)
(* Feishu webhook at any point of a run, whatever FEISHU_REPORT_TYPE and   *)
(* the webhook URL are.                                                    *)
(* Fails: only send_reports reads the switch.  send_to_feishu, which run   *)
(* calls for "current" and "both" and generate_daily_summary for "daily"   *)
(* and "both", posts whenever there is a webhook URL.                      *)
(***************************************************************************)
C26_FeishuSwitch == ~CONFIG.FEISHU_ENABLE => feishu_posts = <<>>

(***************************************************************************)
(* C27: for a single snapshot file, _parse_file_titles and the decoder of  *)
(* read_all_today_titles with its merge give the same sources, and for     *)
(* each source the same titles with the same ranks, url and mobileUrl,     *)
(* files with two sections of one display alias included.                  *)
(* Fails: _parse_file_titles starts the alias's titles anew at each of its *)
(* sections, so the last section replaces the earlier ones;                *)
(* read_all_today_titles merges the sections.                              *)
(***************************************************************************)
C27_DecodersAgree ==
    (pc = "read" /\ read_pos = 2) =>
        /\ DictKeys(agg.all_results) = DictKeys(parse_file_titles(OnlyFile.content))
        /\ TitleRecords(agg.all_results)
               = TitleRecords(parse_file_titles(OnlyFile.content))

(***************************************************************************)
(* C28: when read_all_today_titles has read the files of the day, the      *)
(* count of every aggregated (source, title) is the number of files with   *)
(* the title in a section of the source, so it is at least 1 and at most   *)
(* the number of files read.                                               *)
(* Fails: the count goes up once for each section, not once for each       *)
(* file; one file with two sections of one display alias that hold the     *)
(* same title gives it the count 2.                                        *)
(***************************************************************************)
\* the file has a decoded section of this name with this title
AppearsIn(file, name, title) ==
    LET sections == Split(file.content, <<"\n", "\n">>)
    IN  \E n \in 1..Len(sections) :
            /\ ~SectionSkipped(sections[n])
            /\ SectionName(sections[n]) = name
            /\ DictHas(SectionTitles(sections[n]), title)

Requests(trace) == SelectSeq(trace, LAMBDA e : e # "sleep")

\* a sleep stands after a failed request and, once the loop goes on, before
\* the next request; nothing else stands between two requests
SleepsBetween(trace) ==
    \A i \in 1 .. Len(trace) :
        /\ trace[i] = "sleep" =>
              /\ i > 1
              /\ trace[i - 1] \in FetchFailures
        /\ (trace[i] # "sleep" /\ i > 1) => trace[i - 1] = "sleep"

FetchSafe ==
    LET requests == Requests(fetch.trace)
    IN  /\ Len(requests) <= fetch.max_retries + 1
        /\ \A i \in 1 .. Len(requests) :
              requests[i] \in FetchPayloads =>
                  /\ i = Len(requests)
                  /\ fetch.returned = "payload"
        /\ SleepsBetween(fetch.trace)
        /\ fetch.returned = "payload" =>
              /\ requests # <<>>
              /\ requests[Len(requests)] \in FetchPayloads
        /\ fetch.returned = "none" =>
              /\ Len(requests) = fetch.max_retries + 1
              /\ \A i \in 1 .. Len(requests) : requests[i] \in FetchFailures
              /\ (fetch.trace # <<>> => fetch.trace[Len(fetch.trace)] # "sleep")
        /\ (Len(requests) = fetch.max_retries + 1
              /\ \A i \in 1 .. Len(requests) : requests[i] \in FetchFailures)
              => fetch.returned = "none" \/ (fetch.max_retries = -1 /\ fetch.returned = "no")

C29_FetchTerminates == []FetchSafe /\ <>(fetch.returned # "no")

\* the last of three requests failed after two sleeps, and no payload came
C29_Witness ==
    /\ fetch.max_retries = 2
    /\ fetch.returned = "none"
    /\ Len(Requests(fetch.trace)) = 3
    /\ Len(fetch.trace) = 5

====
